---- MODULE Spec2Model ----
(***************************************************************************)
(* A model of the static-analysis pipeline of DeCodify: the source file    *)
(* parser and directory walker (server/services/astParser.js), the         *)
(* dependency graph builder, and the Mermaid projection engine and         *)
(* validator (services/mermaidService.js).                                 *)
(*                                                                         *)
(* JavaScript strings are TLA+ strings; a character is a string of length  *)
(* one, read with CharAt.                                                  *)
(***************************************************************************)
EXTENDS Integers, Sequences, FiniteSets, TLC

VARIABLES
    sPc, sIn, sOut, sOut2,          \* sanitizeId applied once and twice to an id
    vPc, vDsl, vResult,             \* validateMermaidDSL applied to a diagram text
    pc,                             \* the position of an analysis run
    dirPath,                        \* the root handed to parseDirectory
    disk,                           \* the files below the root
    files,                          \* what glob returned, in its order
    parseResults,                   \* the FileRecords parsed so far
    dependencyGraph,                \* the graph built from them
    projectData,                    \* the persisted snapshot of the project
    givenContent,                   \* the content argument of a parseFile call
    dPc, dKind, dOptions,           \* the projection asked of the MermaidService
    mermaidDSL,                     \* the diagram text it returned
    validation,                     \* what validateMermaidDSL said of that text
    request,                        \* the request a diagram endpoint is handling
    response,                       \* what the endpoint answered
    cPc, ast, cComponents,          \* extractReactComponents applied to a syntax tree
    projectStore,                   \* the project ids that have a data file
    projectContexts,                \* the chat router's Map of project contexts
    deletedIds,                     \* the ids the upload router has deleted
    lastCall,                       \* the last request served and its answer
    fPc, fProjectId, fFilePath,     \* a getFileContent call
    fContent,                       \* and what it returned
    stPc,                           \* the position of a streamed chat answer
    tokens,                         \* the tokens the model has still to produce
    emitted,                        \* the tokens handed to onToken so far, joined
    wire,                           \* the bytes written and not yet read
    accumulated                     \* the AI message content in ChatTab

vars == <<sPc, sIn, sOut, sOut2, vPc, vDsl, vResult,
          pc, dirPath, disk, files, parseResults, dependencyGraph, projectData,
          givenContent, dPc, dKind, dOptions, mermaidDSL, validation,
          request, response, cPc, ast, cComponents,
          projectStore, projectContexts, deletedIds, lastCall,
          fPc, fProjectId, fFilePath, fContent,
          stPc, tokens, emitted, wire, accumulated>>
runVars == <<pc, dirPath, disk, files, parseResults, dependencyGraph, projectData,
             givenContent>>
sanitizeVars == <<sPc, sIn, sOut, sOut2>>
validateVars == <<vPc, vDsl, vResult>>
diagramVars == <<dPc, dKind, dOptions, mermaidDSL, validation>>
routeVars == <<request, response>>
componentVars == <<cPc, ast, cComponents>>
chatVars == <<projectStore, projectContexts, deletedIds, lastCall>>
fileVars == <<fPc, fProjectId, fFilePath, fContent>>
streamVars == <<stPc, tokens, emitted, wire, accumulated>>
otherVars == <<componentVars, chatVars, fileVars, streamVars>>

(***************************************************************************)
(* JavaScript string primitives.                                           *)
(***************************************************************************)
LowerLetters == {"a","b","c","d","e","f","g","h","i","j","k","l","m",
                 "n","o","p","q","r","s","t","u","v","w","x","y","z"}
UpperLetters == {"A","B","C","D","E","F","G","H","I","J","K","L","M",
                 "N","O","P","Q","R","S","T","U","V","W","X","Y","Z"}
Digits == {"0","1","2","3","4","5","6","7","8","9"}
\* the regex class [a-zA-Z0-9_]
WordChars == LowerLetters \cup UpperLetters \cup Digits \cup {"_"}
\* the characters String.prototype.trim removes (those the model's texts use)
WhiteSpace == {" ", "\n", "\t", "\r"}
\* the characters the regex . does not match
LineTerminators == {"\n", "\r"}

CharAt(s, i) == SubSeq(s, i, i)

\* s.substring(a, b) with 0-based a and exclusive b, clamped as JavaScript does
substring(s, a, b) ==
    LET hi == IF b > Len(s) THEN Len(s) ELSE b
    IN  IF a >= hi THEN "" ELSE SubSeq(s, a + 1, hi)

startsWith(s, p) == Len(p) <= Len(s) /\ SubSeq(s, 1, Len(p)) = p

endsWith(s, p) == Len(p) <= Len(s) /\ SubSeq(s, Len(s) - Len(p) + 1, Len(s)) = p

includes(s, p) ==
    \E i \in 1..(Len(s) - Len(p) + 1) : SubSeq(s, i, i + Len(p) - 1) = p

RECURSIVE trimStart(_)
trimStart(s) ==
    IF s # "" /\ CharAt(s, 1) \in WhiteSpace THEN trimStart(SubSeq(s, 2, Len(s))) ELSE s

RECURSIVE trimEnd(_)
trimEnd(s) ==
    IF s # "" /\ CharAt(s, Len(s)) \in WhiteSpace
    THEN trimEnd(SubSeq(s, 1, Len(s) - 1)) ELSE s

trim(s) == trimEnd(trimStart(s))

upperAlphabet == "ABCDEFGHIJKLMNOPQRSTUVWXYZ"
lowerAlphabet == "abcdefghijklmnopqrstuvwxyz"

lowerChar(c) ==
    IF c \in UpperLetters
    THEN CharAt(lowerAlphabet, CHOOSE k \in 1..26 : CharAt(upperAlphabet, k) = c)
    ELSE c

upperChar(c) ==
    IF c \in LowerLetters
    THEN CharAt(upperAlphabet, CHOOSE k \in 1..26 : CharAt(lowerAlphabet, k) = c)
    ELSE c

RECURSIVE toUpperCase(_)
toUpperCase(s) ==
    IF s = "" THEN ""
    ELSE IF Len(s) = 1 THEN upperChar(s)
    ELSE LET mid == Len(s) \div 2
         IN  toUpperCase(SubSeq(s, 1, mid)) \o toUpperCase(SubSeq(s, mid + 1, Len(s)))

RECURSIVE toLowerCase(_)
toLowerCase(s) ==
    IF s = "" THEN ""
    ELSE IF Len(s) = 1 THEN lowerChar(s)
    ELSE LET mid == Len(s) \div 2
         IN  toLowerCase(SubSeq(s, 1, mid)) \o toLowerCase(SubSeq(s, mid + 1, Len(s)))

\* the elements of a sequence that satisfy Test, in order (Array.prototype.filter)
filter(seq, Test(_)) == SelectSeq(seq, Test)

\* the index of the first element that satisfies Test, 0 when there is none
\* (Array.prototype.find)
findIndex(seq, Test(_)) ==
    IF \E i \in 1..Len(seq) : Test(seq[i])
    THEN CHOOSE i \in 1..Len(seq) : Test(seq[i]) /\ \A j \in 1..(i - 1) : ~Test(seq[j])
    ELSE 0

RECURSIVE concatAll(_)
\* the concatenation of a sequence of sequences
concatAll(seqs) == IF Len(seqs) = 0 THEN <<>> ELSE Head(seqs) \o concatAll(Tail(seqs))

(***************************************************************************)
(* Node's path module (POSIX).                                             *)
(***************************************************************************)
\* s.lastIndexOf(c) at or before 1-based position i; 0 when there is none
RECURSIVE lastIndexOfChar(_, _, _)
lastIndexOfChar(s, c, i) ==
    IF i < 1 THEN 0
    ELSE IF CharAt(s, i) = c THEN i ELSE lastIndexOfChar(s, c, i - 1)

\* (cur + s.substring(i - 1)).split('/'), for a cur without a separator
split(s, i, cur) ==
    LET seps == {k \in i..Len(s) : CharAt(s, k) = "/"}
        sepAt(n) == CHOOSE k \in seps : Cardinality({j \in seps : j < k}) = n - 1
        last == Cardinality(seps) + 1
    IN  [n \in 1..last |->
            LET from == IF n = 1 THEN i ELSE sepAt(n - 1) + 1
                to == IF n = last THEN Len(s) ELSE sepAt(n) - 1
            IN  (IF n = 1 THEN cur ELSE "")
                \o (IF to < from THEN "" ELSE SubSeq(s, from, to))]

\* segs.join('/')
RECURSIVE join(_)
join(segs) ==
    IF Len(segs) = 0 THEN ""
    ELSE IF Len(segs) = 1 THEN segs[1]
    ELSE segs[1] \o "/" \o join(Tail(segs))

\* the length of s without its trailing slashes
RECURSIVE lenWithoutTrailingSlashes(_, _)
lenWithoutTrailingSlashes(s, n) ==
    IF n > 0 /\ CharAt(s, n) = "/" THEN lenWithoutTrailingSlashes(s, n - 1) ELSE n

\* path.dirname: the scan for the last separator stops before the first character
dirname(p) ==
    IF p = "" THEN "."
    ELSE LET n == lenWithoutTrailingSlashes(p, Len(p))
             hasRoot == CharAt(p, 1) = "/"
             end == IF n <= 1 THEN 0 ELSE lastIndexOfChar(p, "/", n)
         IN  IF end <= 1 THEN (IF hasRoot THEN "/" ELSE ".")
             ELSE IF hasRoot /\ end = 2 THEN "//"
             ELSE SubSeq(p, 1, end - 1)

\* path.basename
basename(p) ==
    LET n == lenWithoutTrailingSlashes(p, Len(p))
        start == lastIndexOfChar(p, "/", n)
    IN  IF n = 0 THEN "" ELSE SubSeq(p, start + 1, n)

\* path.extname
extname(p) ==
    LET b == basename(p)
        dot == lastIndexOfChar(b, ".", Len(b))
    IN  IF dot <= 1 \/ b = ".." THEN "" ELSE SubSeq(b, dot, Len(b))

\* normalizeString of an absolute path: '.', '' are dropped and '..' pops a segment
RECURSIVE normalizeSegments(_, _, _)
normalizeSegments(segs, i, acc) ==
    IF i > Len(segs) THEN acc
    ELSE IF segs[i] = "" \/ segs[i] = "." THEN normalizeSegments(segs, i + 1, acc)
    ELSE IF segs[i] = ".."
         THEN normalizeSegments(segs, i + 1,
                  IF Len(acc) = 0 THEN acc ELSE SubSeq(acc, 1, Len(acc) - 1))
    ELSE normalizeSegments(segs, i + 1, Append(acc, segs[i]))

\* path.resolve(from, to) in a process whose working directory is workdir; the
\* working directory is absolute, so the result always is
resolve(workdir, from, to) ==
    LET joined ==
            IF to # "" /\ CharAt(to, 1) = "/" THEN to
            ELSE IF from # "" /\ CharAt(from, 1) = "/" THEN from \o "/" \o to
            ELSE workdir \o "/" \o from \o "/" \o to
    IN  "/" \o join(normalizeSegments(split(joined, 1, ""), 1, <<>>))

(***************************************************************************)
(* ASTParserService: the per-file parsers.                                 *)
(*                                                                         *)
(* A file's text is described by what the parsers read from it:            *)
(*   grammarOk  whether the grammar-driven parse (acorn, css-tree) accepts *)
(*   refs       its dependency statements in source order, each with the   *)
(*              form of the statement and the target text                  *)
(*   functions, classes, components, exports                               *)
(*              what the AST walks find                                    *)
(*   blocks     for a single-file component, its script, template and      *)
(*              style blocks, each described the same way                  *)
(* A FileRecord field the code leaves undefined is "" (extension, error),  *)
(* 0 (size) or <<>> (errors).                                              *)
(***************************************************************************)
supportedExtensions == <<".js", ".jsx", ".ts", ".tsx", ".html", ".css", ".vue">>

dependency(type, source) ==
    [type |-> type, source |-> source, external |-> ~startsWith(source, ".")]

RECURSIVE dependenciesOf(_, _)
\* one dependency per matching statement, in source order
dependenciesOf(refs, form) ==
    IF Len(refs) = 0 THEN <<>>
    ELSE (IF Head(refs).form = form
          THEN <<dependency(form, Head(refs).source)>> ELSE <<>>)
         \o dependenciesOf(Tail(refs), form)

\* the import statements first, then the require calls, then the dynamic imports
extractDependencies(content) ==
    dependenciesOf(content.refs, "import")
        \o dependenciesOf(content.refs, "require")
        \o dependenciesOf(content.refs, "dynamic")

extractCSSImports(content) == dependenciesOf(content.refs, "css_import")

parseError == [type |-> "parse_error"]

\* a parseJavaScript that runs the regex extraction before the grammar-driven parse
parseJavaScriptExtractingFirst(content, result) ==
    IF content.grammarOk
    THEN [result EXCEPT !.dependencies = extractDependencies(content),
                        !.exports = content.exports,
                        !.functions = content.functions,
                        !.classes = content.classes,
                        !.components = content.components]
    ELSE [result EXCEPT !.dependencies = extractDependencies(content),
                        !.errors = Append(@, parseError)]

parseJavaScript(content, result) ==
    IF content.grammarOk
    THEN [result EXCEPT !.dependencies = extractDependencies(content),
                        !.exports = content.exports,
                        !.functions = content.functions,
                        !.classes = content.classes,
                        !.components = content.components]
    ELSE [result EXCEPT !.errors = Append(@, parseError)]

\* the script elements with a src, then the stylesheet links with an href
parseHTML(content, result) ==
    IF content.grammarOk
    THEN [result EXCEPT !.dependencies =
              @ \o dependenciesOf(content.refs, "script")
                \o dependenciesOf(content.refs, "stylesheet")]
    ELSE [result EXCEPT !.errors = Append(@, parseError)]

parseCSS(content, result) ==
    IF content.grammarOk
    THEN [result EXCEPT !.dependencies = extractCSSImports(content)]
    ELSE [result EXCEPT !.errors = Append(@, parseError)]

blocksOf(content, tag) == filter(content.blocks, LAMBDA b : b.tag = tag)

\* A sub-parser is handed {...result}: a copy whose arrays are the outer record's
\* own arrays. An array the sub-parser assigns is a new one; an array it only
\* pushes to, or leaves alone, is the outer record's, which result.x.push(...sub.x)
\* then appends to itself.
mergeScript(result, block) ==
    LET sub == parseJavaScript(block, result) IN
    IF block.grammarOk
    THEN [result EXCEPT !.dependencies = @ \o sub.dependencies,
                        !.functions = @ \o sub.functions,
                        !.classes = @ \o sub.classes,
                        !.components = @ \o sub.components]
    ELSE [result EXCEPT !.errors = sub.errors,
                        !.dependencies = @ \o @,
                        !.functions = @ \o @,
                        !.classes = @ \o @,
                        !.components = @ \o @]

mergeTemplate(result, block) ==
    LET sub == parseHTML(block, result) IN
    [result EXCEPT !.errors = sub.errors,
                   !.dependencies = sub.dependencies \o sub.dependencies]

mergeStyle(result, block) ==
    LET sub == parseCSS(block, result) IN
    IF block.grammarOk
    THEN [result EXCEPT !.dependencies = @ \o sub.dependencies]
    ELSE [result EXCEPT !.errors = sub.errors, !.dependencies = @ \o @]

RECURSIVE mergeStyles(_, _)
mergeStyles(result, styleBlocks) ==
    IF Len(styleBlocks) = 0 THEN result
    ELSE mergeStyles(mergeStyle(result, Head(styleBlocks)), Tail(styleBlocks))

\* a parseVue whose single try block is left at the first block that fails
parseVueAborting(content, result) ==
    LET scripts == blocksOf(content, "script")
        templates == blocksOf(content, "template")
        styles == blocksOf(content, "style")
        failed == [result EXCEPT !.errors = Append(@, parseError)]
    IN  IF Len(scripts) > 0 /\ ~scripts[1].grammarOk THEN failed
        ELSE IF Len(templates) > 0 /\ ~templates[1].grammarOk THEN failed
        ELSE IF \E k \in 1..Len(styles) : ~styles[k].grammarOk THEN failed
        ELSE mergeStyles(
                 IF Len(templates) > 0
                 THEN mergeTemplate(IF Len(scripts) > 0 THEN mergeScript(result, scripts[1])
                                    ELSE result, templates[1])
                 ELSE IF Len(scripts) > 0 THEN mergeScript(result, scripts[1]) ELSE result,
                 styles)

parseVue(content, result) ==
    LET scripts == blocksOf(content, "script")
        templates == blocksOf(content, "template")
        r1 == IF Len(scripts) > 0 THEN mergeScript(result, scripts[1]) ELSE result
        r2 == IF Len(templates) > 0 THEN mergeTemplate(r1, templates[1]) ELSE r1
    IN  mergeStyles(r2, blocksOf(content, "style"))

\* a catch block that drops the error message
fatalRecordWithoutError(filePath, message) ==
    [filePath |-> filePath, extension |-> "", size |-> 0, error |-> "",
     dependencies |-> <<>>, exports |-> <<>>, functions |-> <<>>,
     classes |-> <<>>, components |-> <<>>, errors |-> <<>>]

\* the record parseFile's catch block returns
fatalRecord(filePath, message) ==
    [filePath |-> filePath, extension |-> "", size |-> 0, error |-> message,
     dependencies |-> <<>>, exports |-> <<>>, functions |-> <<>>,
     classes |-> <<>>, components |-> <<>>, errors |-> <<>>]

\* parseFile without its try/catch: the failure leaves the function as an exception
parseFileUncaught(filePath, file) ==
    LET extension == toLowerCase(extname(filePath))
        result == [filePath |-> filePath, extension |-> extension,
                   size |-> file.content.size, error |-> "",
                   dependencies |-> <<>>, exports |-> <<>>, functions |-> <<>>,
                   classes |-> <<>>, components |-> <<>>, errors |-> <<>>]
    IN  IF ~file.readable THEN [thrown |-> "read failed"]
        ELSE IF extension \in {".js", ".jsx", ".ts", ".tsx"}
             THEN parseJavaScript(file.content, result)
        ELSE IF extension = ".html" THEN parseHTML(file.content, result)
        ELSE IF extension = ".css" THEN parseCSS(file.content, result)
        ELSE IF extension = ".vue" THEN parseVue(file.content, result)
        ELSE [thrown |-> "Unsupported file type: " \o extension]

\* parseFile(filePath) on a file of the disk: file.readable says whether
\* fs.readFile succeeds, file.content describes the text it returns
parseFile(filePath, file) ==
    LET extension == toLowerCase(extname(filePath))
        result == [filePath |-> filePath, extension |-> extension,
                   size |-> file.content.size, error |-> "",
                   dependencies |-> <<>>, exports |-> <<>>, functions |-> <<>>,
                   classes |-> <<>>, components |-> <<>>, errors |-> <<>>]
    IN  IF ~file.readable THEN fatalRecord(filePath, "read failed")
        ELSE IF extension \in {".js", ".jsx", ".ts", ".tsx"}
             THEN parseJavaScript(file.content, result)
        ELSE IF extension = ".html" THEN parseHTML(file.content, result)
        ELSE IF extension = ".css" THEN parseCSS(file.content, result)
        ELSE IF extension = ".vue" THEN parseVue(file.content, result)
        ELSE fatalRecord(filePath, "Unsupported file type: " \o extension)

\* const fileContent = content || await fs.readFile(filePath, 'utf8'): a content
\* argument that is not empty is parsed and the disk is not read
parseFileWithContent(filePath, content, file) ==
    IF content.size > 0
    THEN parseFile(filePath, [rel |-> file.rel, readable |-> TRUE, content |-> content])
    ELSE parseFile(filePath, file)

(***************************************************************************)
(* ASTParserService.parseDirectory: the glob.                              *)
(***************************************************************************)
ignoredDirectories == {"node_modules", "dist", "build"}

\* ignore: ['**/node_modules/**', '**/dist/**', '**/build/**']
ignored(path) ==
    LET segs == split(path, 1, "")
    IN  \E i \in 1..(Len(segs) - 1) : segs[i] \in ignoredDirectories

\* `${dirPath}/**/*.{js,jsx,ts,tsx,html,css,vue}`
globMatches(path) ==
    /\ \E e \in 1..Len(supportedExtensions) :
           /\ endsWith(basename(path), supportedExtensions[e])
           /\ Len(basename(path)) > Len(supportedExtensions[e])
    /\ ~ignored(path)

(***************************************************************************)
(* ASTParserService.generateDependencyGraph                                *)
(***************************************************************************)
\* the working directory of the server process, which path.resolve falls back to
processCwd == "/srv/app"

graphNode(file) ==
    [id |-> file.filePath, label |-> basename(file.filePath),
     type |-> file.extension, size |-> file.size,
     functions |-> Len(file.functions), classes |-> Len(file.classes),
     components |-> Len(file.components), external |-> FALSE]

\* parsedFiles.find(f => f.filePath === resolvedPath || ... + '.tsx')
findTargetFile(parsedFiles, resolvedPath) ==
    findIndex(parsedFiles, LAMBDA f :
        \/ f.filePath = resolvedPath
        \/ f.filePath = resolvedPath \o ".js"
        \/ f.filePath = resolvedPath \o ".jsx"
        \/ f.filePath = resolvedPath \o ".ts"
        \/ f.filePath = resolvedPath \o ".tsx")

\* an edge that ends at the resolved candidate instead of the file found for it
edgesToResolvedPath(parsedFiles, file, dep) ==
    IF dep.external THEN <<>>
    ELSE LET resolvedPath == resolve(processCwd, dirname(file.filePath), dep.source)
             target == findTargetFile(parsedFiles, resolvedPath)
         IN  IF target = 0 THEN <<>>
             ELSE << [from |-> file.filePath, to |-> resolvedPath,
                      type |-> dep.type, label |-> dep.source] >>

\* the edges of one dependency of a file: one or none
edgesOfDependency(parsedFiles, file, dep) ==
    IF dep.external THEN <<>>
    ELSE LET resolvedPath == resolve(processCwd, dirname(file.filePath), dep.source)
             target == findTargetFile(parsedFiles, resolvedPath)
         IN  IF target = 0 THEN <<>>
             ELSE << [from |-> file.filePath, to |-> parsedFiles[target].filePath,
                      type |-> dep.type, label |-> dep.source] >>

\* a walk that emits one edge for each target only
edgesOfFileDeduplicated(parsedFiles, file) ==
    LET all == concatAll([d \in 1..Len(file.dependencies) |->
                             edgesOfDependency(parsedFiles, file, file.dependencies[d])])
    IN  SelectSeq(all, LAMBDA e :
            e = all[CHOOSE k \in 1..Len(all) :
                        all[k].to = e.to /\ \A j \in 1..(k - 1) : all[j].to # e.to])

edgesOfFile(parsedFiles, file) ==
    concatAll([d \in 1..Len(file.dependencies) |->
                  edgesOfDependency(parsedFiles, file, file.dependencies[d])])

\* a builder that leaves out the files that could not be processed
graphWithoutFatalFiles(parsedFiles) ==
    LET kept == filter(parsedFiles, LAMBDA f : f.error = "")
    IN  [nodes |-> [i \in 1..Len(kept) |-> graphNode(kept[i])],
         edges |-> concatAll([i \in 1..Len(parsedFiles) |->
                                 edgesOfFile(parsedFiles, parsedFiles[i])])]

generateDependencyGraph(parsedFiles) ==
    [nodes |-> [i \in 1..Len(parsedFiles) |-> graphNode(parsedFiles[i])],
     edges |-> concatAll([i \in 1..Len(parsedFiles) |->
                             edgesOfFile(parsedFiles, parsedFiles[i])])]

(***************************************************************************)
(* MermaidService.sanitizeId                                               *)
(***************************************************************************)
IdMaxLength == 50

\* .replace(/\\/g,'_').replace(/\//g,'_').replace(/[^a-zA-Z0-9_]/g,'_')
RECURSIVE replaceNonWord(_, _)
replaceNonWord(s, i) ==
    IF i > Len(s) THEN ""
    ELSE IF i = Len(s) THEN (IF CharAt(s, i) \in WordChars THEN CharAt(s, i) ELSE "_")
    ELSE LET mid == (i + Len(s)) \div 2
         IN  replaceNonWord(SubSeq(s, 1, mid), i) \o replaceNonWord(s, mid + 1)

\* .replace(/_+/g, '_')
RECURSIVE collapseUnderscores(_, _)
collapseUnderscores(s, i) ==
    IF i > Len(s) THEN ""
    ELSE IF i = Len(s)
         THEN (IF CharAt(s, i) = "_" /\ i > 1 /\ CharAt(s, i - 1) = "_"
               THEN "" ELSE CharAt(s, i))
    ELSE LET mid == (i + Len(s)) \div 2
         IN  collapseUnderscores(SubSeq(s, 1, mid), i) \o collapseUnderscores(s, mid + 1)

\* .replace(/^(\d)/, '_$1')
prefixLeadingDigit(s) ==
    IF s # "" /\ CharAt(s, 1) \in Digits THEN "_" \o s ELSE s

\* .replace(/^_+/, '')
RECURSIVE stripLeadingUnderscores(_)
stripLeadingUnderscores(s) ==
    IF s # "" /\ CharAt(s, 1) = "_"
    THEN stripLeadingUnderscores(SubSeq(s, 2, Len(s))) ELSE s

\* .replace(/_+$/, '')
RECURSIVE stripTrailingUnderscores(_)
stripTrailingUnderscores(s) ==
    IF s # "" /\ CharAt(s, Len(s)) = "_"
    THEN stripTrailingUnderscores(SubSeq(s, 1, Len(s) - 1)) ELSE s

\* a sanitizeId without .replace(/_+/g, '_')
sanitizeIdUncollapsed(id) ==
    IF id = "" THEN "undefined_id"
    ELSE LET r == substring(
                    stripTrailingUnderscores(
                      stripLeadingUnderscores(
                        prefixLeadingDigit(replaceNonWord(id, 1)))),
                    0, IdMaxLength)
         IN  IF r = "" THEN "id" ELSE r

\* the empty string stands for every falsy id (null, undefined, '')
sanitizeId(id) ==
    IF id = "" THEN "undefined_id"
    ELSE LET r == substring(
                    stripTrailingUnderscores(
                      stripLeadingUnderscores(
                        prefixLeadingDigit(
                          collapseUnderscores(replaceNonWord(id, 1), 1)))),
                    0, IdMaxLength)
         IN  IF r = "" THEN "id" ELSE r

(***************************************************************************)
(* MermaidService.validateMermaidDSL                                       *)
(***************************************************************************)
\* const brackets = { '[': ']', '(': ')', '{': '}' }
Openers == {"[", "(", "{"}
Closers == {"]", ")", "}"}
brackets(c) == CASE c = "[" -> "]" [] c = "(" -> ")" [] c = "{" -> "}"

\* one iteration of the for-of loop over dsl; the stack is a string of openers and
\* popping an empty stack gives undefined, which matches no closer
bracketStep(state, char) ==
    IF char \in Openers THEN [state EXCEPT !.stack = @ \o char]
    ELSE IF char \in Closers
         THEN IF state.stack = "" THEN [state EXCEPT !.mismatch = TRUE]
              ELSE IF brackets(CharAt(state.stack, Len(state.stack))) # char
                   THEN [stack |-> SubSeq(state.stack, 1, Len(state.stack) - 1),
                         mismatch |-> TRUE]
              ELSE [state EXCEPT !.stack = SubSeq(@, 1, Len(@) - 1)]
    ELSE state

RECURSIVE scanBrackets(_, _, _, _)
\* the loop over dsl[lo..hi], left to right, stopping at the first mismatch (break)
scanBrackets(dsl, lo, hi, state) ==
    IF state.mismatch \/ lo > hi THEN state
    ELSE IF lo = hi THEN bracketStep(state, CharAt(dsl, lo))
    ELSE LET mid == (lo + hi) \div 2
         IN  scanBrackets(dsl, mid + 1, hi, scanBrackets(dsl, lo, mid, state))

\* TRUE when the loop pushes 'Unmatched brackets detected'
bracketMismatch(dsl) ==
    scanBrackets(dsl, 1, Len(dsl), [stack |-> "", mismatch |-> FALSE]).mismatch

\* the five regular expressions, each as <<opening pair, closing pair, replacement
\* opener, replacement closer>>: /\{\((\".*?\")\)\}/ is <<"{(", ")}", ...>>
nestedShapePatterns ==
    << <<"{(", ")}", "(", ")">>,
       <<"[(", ")]", "(", ")">>,
       <<"([", "])", "(", ")">>,
       <<"{[", "]}", "[", "]">>,
       <<"({", "})", "(", ")">> >>

\* the end of the lazy match of  open " .*? " close  that starts at i: the index of
\* the last character of the match, or 0 when there is none
RECURSIVE lazyMatchEnd(_, _, _)
lazyMatchEnd(s, k, close) ==
    IF k + 2 > Len(s) THEN 0
    ELSE IF SubSeq(s, k, k + 2) = ("\"" \o close) THEN k + 2
    ELSE IF CharAt(s, k) \in LineTerminators THEN 0
    ELSE lazyMatchEnd(s, k + 1, close)

matchAt(s, i, pat) ==
    IF i + 2 <= Len(s) /\ SubSeq(s, i, i + 2) = (pat[1] \o "\"")
    THEN lazyMatchEnd(s, i + 3, pat[2]) ELSE 0

\* re.test(dsl)
regexTest(s, pat) == \E i \in 1..Len(s) : matchAt(s, i, pat) # 0

\* validateMermaidDSL testing the declaration on the text as given, not trimmed
validateUntrimmed(dsl) ==
    LET e1 == IF ~startsWith(dsl, "graph") /\ ~startsWith(dsl, "classDiagram")
                 /\ ~startsWith(dsl, "sequenceDiagram")
              THEN <<"Invalid diagram type declaration">> ELSE <<>>
        e2 == IF bracketMismatch(dsl)
              THEN <<"Unmatched brackets detected">> ELSE <<>>
        e3 == IF \E p \in 1..Len(nestedShapePatterns) :
                    regexTest(dsl, nestedShapePatterns[p])
              THEN <<"Nested shape tokens detected">> ELSE <<>>
        errors == e1 \o e2 \o e3
    IN  [isValid |-> Len(errors) = 0, errors |-> errors]

validateMermaidDSL(dsl) ==
    LET t == trim(dsl)
        e1 == IF ~startsWith(t, "graph") /\ ~startsWith(t, "classDiagram")
                 /\ ~startsWith(t, "sequenceDiagram")
              THEN <<"Invalid diagram type declaration">> ELSE <<>>
        e2 == IF bracketMismatch(dsl)
              THEN <<"Unmatched brackets detected">> ELSE <<>>
        e3 == IF \E p \in 1..Len(nestedShapePatterns) :
                    regexTest(dsl, nestedShapePatterns[p])
              THEN <<"Nested shape tokens detected">> ELSE <<>>
        errors == e1 \o e2 \o e3
    IN  [isValid |-> Len(errors) = 0, errors |-> errors]

(***************************************************************************)
(* MermaidService.normalizeShapes                                          *)
(***************************************************************************)
RECURSIVE replaceAllShape(_, _)
\* out.replace(re, '<open>$1<close>') with the g flag: the leftmost match is
\* replaced and the search goes on behind it
replaceAllShape(s, pat) ==
    LET starts == {i \in 1..Len(s) : matchAt(s, i, pat) # 0} IN
    IF starts = {} THEN s
    ELSE LET i == CHOOSE x \in starts : \A y \in starts : x <= y
             e == matchAt(s, i, pat)
         IN  SubSeq(s, 1, i - 1) \o pat[3] \o SubSeq(s, i + 2, e - 2) \o pat[4]
                 \o replaceAllShape(SubSeq(s, e + 1, Len(s)), pat)

RECURSIVE normalizeFrom(_, _)
normalizeFrom(out, p) ==
    IF p > Len(nestedShapePatterns) THEN out
    ELSE normalizeFrom(replaceAllShape(out, nestedShapePatterns[p]), p + 1)

normalizeShapes(dsl) == normalizeFrom(dsl, 1)

(***************************************************************************)
(* MermaidService: the dependency flowchart.                               *)
(***************************************************************************)
\* this.nodeShapes[node.type] || this.nodeShapes.default
getNodeShape(node) ==
    CASE node.type \in {".js", ".vue", "default"} -> "square"
      [] node.type \in {".jsx", ".tsx"} -> "round"
      [] node.type = ".ts" -> "diamond"
      [] node.type = ".html" -> "subroutine"
      [] node.type = ".css" -> "circle"
      [] OTHER -> "square"

\* this.edgeTypes[edge.type] || this.edgeTypes.default
edgeTypes(type) ==
    CASE type \in {"import", "script", "default"} -> "-->"
      [] type \in {"require", "stylesheet", "css_import"} -> "-.->"
      [] type = "dynamic" -> "==>"
      [] OTHER -> "-->"

RECURSIVE numberToString(_)
\* `${n}` of a non-negative integer
numberToString(n) ==
    IF n < 10 THEN CharAt("0123456789", n + 1)
    ELSE numberToString(n \div 10) \o CharAt("0123456789", (n % 10) + 1)

RECURSIVE replaceChars(_, _, _)
\* s.replace(/[<from>]/g, to), with to a string of length 0 or 1
replaceChars(s, from, to) ==
    IF s = "" THEN ""
    ELSE (IF CharAt(s, 1) \in from THEN to ELSE CharAt(s, 1))
         \o replaceChars(SubSeq(s, 2, Len(s)), from, to)

RECURSIVE joinWith(_, _)
\* parts.join(sep)
joinWith(parts, sep) ==
    IF Len(parts) = 0 THEN ""
    ELSE IF Len(parts) = 1 THEN parts[1]
    ELSE parts[1] \o sep \o joinWith(Tail(parts), sep)

\* the characters of the regex class [a-zA-Z0-9\s\-_\[\],\.]
LabelChars == WordChars \cup WhiteSpace \cup {"-", "[", "]", ",", "."}

\* s.replace(/[^<kept>]/g, '')
keepChars(s, kept) ==
    replaceChars(s, {CharAt(s, i) : i \in 1..Len(s)} \ kept, "")

generateNodeLabel(node) ==
    LET raw == IF node.label = "" THEN "Unknown" ELSE node.label
        label == trim(replaceChars(raw, {"\"", "\\", "\n", "\r", "\t"}, " "))
        metadata ==
            (IF node.functions > 0 THEN <<numberToString(node.functions) \o "f">> ELSE <<>>)
            \o (IF node.classes > 0 THEN <<numberToString(node.classes) \o "c">> ELSE <<>>)
            \o (IF node.components > 0
                THEN <<numberToString(node.components) \o "comp">> ELSE <<>>)
        full == IF Len(metadata) > 0
                THEN label \o " [" \o joinWith(metadata, ",") \o "]" ELSE label
    IN  keepChars(substring(full, 0, 60), LabelChars)

sanitizeEdgeLabel(label) ==
    substring(
        trim(replaceChars(
            replaceChars(replaceChars(label, {"\n", "\r", "\t"}, " "), {"|"}, "/"),
            {"{", "}", "[", "]", "(", ")"}, "")),
        0, 50)

formatNodeByShape(label, shapeType) ==
    LET quotedLabel == "\"" \o label \o "\"" IN
    CASE shapeType = "round" -> "(" \o quotedLabel \o ")"
      [] shapeType = "circle" -> "(((" \o quotedLabel \o ")))"
      [] shapeType = "subroutine" -> "[[" \o quotedLabel \o "]]"
      [] shapeType = "diamond" -> "{" \o quotedLabel \o "}"
      [] OTHER -> "[" \o quotedLabel \o "]"

externalPatterns ==
    <<"react", "vue", "angular", "lodash", "axios", "express", "node:", "@", "npm:",
      "http://", "https://">>

\* a check that knows the markers and the listed packages only
isExternalByPattern(node) ==
    \/ node.external
    \/ includes(node.id, "node_modules")
    \/ \E k \in 1..Len(externalPatterns) :
           includes(toLowerCase(node.id), externalPatterns[k])

isExternalNode(node) ==
    \/ node.external
    \/ includes(node.id, "node_modules")
    \/ LET id == toLowerCase(node.id) IN
       \/ ~includes(id, "/") /\ ~includes(id, "\\") /\ ~includes(id, ".")
       \/ \E k \in 1..Len(externalPatterns) : includes(id, externalPatterns[k])

filterEdges(edges, validNodes) ==
    LET validNodeIds == {validNodes[i].id : i \in 1..Len(validNodes)}
    IN  filter(edges, LAMBDA edge : edge.from \in validNodeIds /\ edge.to \in validNodeIds)

generateStyling ==
    "\n  %% Styling\n"
    \o "  classDef jsFile fill:#f9f,stroke:#333,stroke-width:2px\n"
    \o "  classDef tsFile fill:#bbf,stroke:#333,stroke-width:2px\n"
    \o "  classDef htmlFile fill:#bfb,stroke:#333,stroke-width:2px\n"
    \o "  classDef cssFile fill:#fbb,stroke:#333,stroke-width:2px\n"
    \o "  classDef vueFile fill:#bff,stroke:#333,stroke-width:2px\n"
    \o "  \n"
    \o "  %% Apply classes (this would be dynamically generated)\n"

\* parts.slice(0, -1).join('/') || 'root'
directoryOf(id) ==
    LET parts == split(id, 1, "")
        directory == join(SubSeq(parts, 1, Len(parts) - 1))
    IN  IF directory = "" THEN "root" ELSE directory

RECURSIVE groupKeys(_, _)
\* the directories of the nodes, each once, in the order of their first node
groupKeys(nodes, seen) ==
    IF Len(nodes) = 0 THEN seen
    ELSE LET directory == directoryOf(Head(nodes).id) IN
         groupKeys(Tail(nodes),
                   IF \E k \in 1..Len(seen) : seen[k] = directory
                   THEN seen ELSE Append(seen, directory))

\* Object.entries of the groups: each directory with its nodes in input order
groupNodesByDirectory(nodes) ==
    LET keys == groupKeys(nodes, <<>>)
    IN  [k \in 1..Len(keys) |->
            [directory |-> keys[k],
             nodes |-> filter(nodes, LAMBDA n : directoryOf(n.id) = keys[k])]]

nodeDefinition(node) ==
    "    " \o sanitizeId(node.id)
        \o formatNodeByShape(generateNodeLabel(node), getNodeShape(node)) \o "\n"

RECURSIVE concatStrings(_)
concatStrings(parts) ==
    IF Len(parts) = 0 THEN "" ELSE Head(parts) \o concatStrings(Tail(parts))

generateNodeDefinitions(nodes, groupByDirectory) ==
    LET nodeGroups == IF groupByDirectory THEN groupNodesByDirectory(nodes)
                      ELSE << [directory |-> "", nodes |-> nodes] >>
    IN  concatStrings([g \in 1..Len(nodeGroups) |->
            LET directory == nodeGroups[g].directory
                groupNodes == nodeGroups[g].nodes
                wrapped == directory # "" /\ groupByDirectory
            IN  (IF wrapped
                 THEN "\n  subgraph \"" \o sanitizeId(directory) \o "\"\n" ELSE "")
                \o concatStrings([n \in 1..Len(groupNodes) |-> nodeDefinition(groupNodes[n])])
                \o (IF wrapped THEN "  end\n" ELSE "")])

generateEdgeDefinitions(edges) ==
    "\n" \o concatStrings([e \in 1..Len(edges) |->
        "  " \o sanitizeId(edges[e].from) \o " " \o edgeTypes(edges[e].type)
             \o (IF edges[e].label # ""
                 THEN "|" \o sanitizeEdgeLabel(edges[e].label) \o "|" ELSE "")
             \o " " \o sanitizeId(edges[e].to) \o "\n"])

\* a limit that keeps the last maxNodes nodes
limitNodesFromEnd(nodes, maxNodes) ==
    IF Len(nodes) > maxNodes
    THEN SubSeq(nodes, Len(nodes) - maxNodes + 1, Len(nodes))
    ELSE nodes

\* nodes.slice(0, maxNodes) when nodes.length > maxNodes; a negative end counts
\* from the end of the list
limitNodes(nodes, maxNodes) ==
    IF Len(nodes) > maxNodes
    THEN SubSeq(nodes, 1, IF maxNodes >= 0 THEN maxNodes ELSE Len(nodes) + maxNodes)
    ELSE nodes

\* the nodes generateFlowchart renders: the filter, then the limit
flowchartNodes(graph, options) ==
    limitNodes(IF options.includeExternal THEN graph.nodes
               ELSE filter(graph.nodes, LAMBDA node : ~isExternalNode(node)),
               options.maxNodes)

min(a, b) == IF a < b THEN a ELSE b

generateFlowchart(graph, options) ==
    LET header == "graph " \o options.direction \o "\n" IN
    IF Len(graph.nodes) = 0
    THEN header \o "  %% No files found to display\n" \o "  A[No files found]\n"
                \o generateStyling
    ELSE LET nodes == flowchartNodes(graph, options)
             edges == filterEdges(graph.edges, nodes)
             chain == IF Len(nodes) > 0 /\ Len(edges) = 0
                      THEN "\n  %% No dependencies found between files\n"
                           \o concatStrings([i \in 1..min(3, Len(nodes) - 1) |->
                                  "  " \o sanitizeId(nodes[i].id) \o " -.-> "
                                       \o sanitizeId(nodes[i + 1].id) \o "\n"])
                      ELSE ""
         IN  normalizeShapes(
                 header \o generateNodeDefinitions(nodes, options.groupByDirectory)
                        \o generateEdgeDefinitions(edges) \o chain \o generateStyling)

(***************************************************************************)
(* MermaidService: the projections of the FileRecord list.                 *)
(***************************************************************************)
\* the components of all files, in file order
componentsOf(parsedFiles) ==
    concatAll([i \in 1..Len(parsedFiles) |->
        [c \in 1..Len(parsedFiles[i].components) |->
            [id |-> parsedFiles[i].filePath \o ":" \o parsedFiles[i].components[c].name,
             name |-> parsedFiles[i].components[c].name,
             type |-> parsedFiles[i].components[c].type,
             file |-> parsedFiles[i].filePath]]])

\* the edges a dependency of a file adds: every component of the file to every
\* component of the first file whose path contains the dependency's target
componentEdges(parsedFiles, components, f, dep) ==
    LET sourceComps == filter(components, LAMBDA c : c.file = f.filePath)
        target == findIndex(parsedFiles, LAMBDA g : includes(g.filePath, dep.source))
        targetComps == IF target = 0 THEN <<>>
                       ELSE filter(components,
                                   LAMBDA c : c.file = parsedFiles[target].filePath)
    IN  concatStrings([a \in 1..Len(sourceComps) |->
            concatStrings([b \in 1..Len(targetComps) |->
                "  " \o sanitizeId(sourceComps[a].id) \o " --> "
                     \o sanitizeId(targetComps[b].id) \o "\n"])])

generateComponentDiagram(parsedFiles) ==
    LET components == componentsOf(parsedFiles) IN
    IF Len(components) = 0
    THEN "graph TD\n"
         \o "  A[No React Components Found]\n"
         \o "  B[Upload a React/Vue project]\n"
         \o "  C[to see component hierarchy]\n"
         \o "  A --> B\n"
         \o "  B --> C\n"
         \o "  classDef placeholder fill:#f9f,stroke:#333,stroke-width:2px\n"
         \o "  class A,B,C placeholder\n"
    ELSE normalizeShapes(
           "graph TD\n"
           \o concatStrings([c \in 1..Len(components) |->
                  "  " \o sanitizeId(components[c].id) \o "[\"" \o components[c].name
                       \o " [" \o components[c].type \o "]\"]\n"])
           \o concatStrings([i \in 1..Len(parsedFiles) |->
                  concatStrings([d \in 1..Len(parsedFiles[i].dependencies) |->
                      componentEdges(parsedFiles, components, parsedFiles[i],
                                     parsedFiles[i].dependencies[d])])])
           \o "  classDef component fill:#61dafb,stroke:#21759b,color:#000\n"
           \o concatStrings([c \in 1..Len(components) |->
                  "  class " \o sanitizeId(components[c].id) \o " component\n"]))

\* the functions of all files, in file order; the parser records no complexity, so
\* func.complexity || 1 is 1
functionsOf(parsedFiles) ==
    concatAll([i \in 1..Len(parsedFiles) |->
        [f \in 1..Len(parsedFiles[i].functions) |->
            [id |-> parsedFiles[i].filePath \o ":" \o parsedFiles[i].functions[f].name,
             name |-> parsedFiles[i].functions[f].name,
             type |-> parsedFiles[i].functions[f].type,
             file |-> parsedFiles[i].filePath,
             complexity |-> 1]]])

isMainFunction(f) ==
    LET name == toLowerCase(f.name)
    IN  includes(name, "main") \/ includes(name, "init") \/ includes(name, "start")

\* generateFunctionCallGraph returning an empty text when there is no function
functionCallGraphWithoutPlaceholder(parsedFiles) ==
    LET functions == functionsOf(parsedFiles) IN
    IF Len(functions) = 0 THEN ""
    ELSE normalizeShapes(
           "graph LR\n"
           \o concatStrings([f \in 1..Len(functions) |->
                  "  " \o sanitizeId(functions[f].id) \o "[\"" \o functions[f].name
                       \o "()\"]\n"]))

generateFunctionCallGraph(parsedFiles) ==
    LET functions == functionsOf(parsedFiles) IN
    IF Len(functions) = 0
    THEN "graph LR\n"
         \o "  A[No Functions Found]\n"
         \o "  B[Upload a project with]\n"
         \o "  C[JavaScript/TypeScript functions]\n"
         \o "  A --> B --> C\n"
         \o "  classDef placeholder fill:#ffa726,stroke:#f57400,color:#fff\n"
         \o "  class A,B,C placeholder\n"
    ELSE LET limitedFunctions == SubSeq(functions, 1, min(20, Len(functions)))
             mainFunctions == filter(limitedFunctions, isMainFunction)
             others == IF Len(mainFunctions) = 0 THEN <<>>
                       ELSE filter(limitedFunctions,
                                   LAMBDA f : f.id # mainFunctions[1].id)
             otherFunctions == SubSeq(others, 1, min(5, Len(others)))
         IN  normalizeShapes(
               "graph LR\n"
               \o concatStrings([f \in 1..Len(limitedFunctions) |->
                      LET label == "\"" \o limitedFunctions[f].name \o "()\"" IN
                      "  " \o sanitizeId(limitedFunctions[f].id)
                           \o (IF limitedFunctions[f].type = "arrow_function"
                               THEN "((" \o label \o "))" ELSE "[" \o label \o "]")
                           \o "\n"])
               \o concatStrings([f \in 1..Len(otherFunctions) |->
                      "  " \o sanitizeId(mainFunctions[1].id) \o " --> "
                           \o sanitizeId(otherFunctions[f].id) \o "\n"])
               \o "  classDef simple fill:#4caf50,stroke:#2e7d32,color:#fff\n"
               \o "  classDef complex fill:#f44336,stroke:#c62828,color:#fff\n"
               \o concatStrings([f \in 1..Len(limitedFunctions) |->
                      "  class " \o sanitizeId(limitedFunctions[f].id) \o " "
                           \o (IF limitedFunctions[f].complexity > 5
                               THEN "complex" ELSE "simple") \o "\n"]))

\* the block of one class of a file; the parser records neither properties nor an
\* end line, so the methods are the file's functions up to 100 lines below the class
classBlock(f, cls) ==
    LET className == sanitizeId(cls.name)
        classMethods == filter(f.functions,
                               LAMBDA m : m.line >= cls.line /\ m.line <= cls.line + 100)
    IN  "  class " \o className \o " {\n"
        \o concatStrings([m \in 1..Len(classMethods) |->
               "    +" \o classMethods[m].name \o "("
                       \o joinWith(classMethods[m].params, ", ") \o ")\n"])
        \o "  }\n"
        \o (IF cls.superClass # ""
            THEN "  " \o sanitizeId(cls.superClass) \o " <|-- " \o className \o "\n"
            ELSE "")

generateClassDiagram(parsedFiles) ==
    LET hasClasses == \E i \in 1..Len(parsedFiles) : Len(parsedFiles[i].classes) > 0
    IN  normalizeShapes(
          "classDiagram\n"
          \o concatStrings([i \in 1..Len(parsedFiles) |->
                 concatStrings([c \in 1..Len(parsedFiles[i].classes) |->
                     classBlock(parsedFiles[i], parsedFiles[i].classes[c])])])
          \o (IF hasClasses THEN ""
              ELSE "  class NoClassesFound {\n"
                   \o "    +message : \"No classes detected in this project\"\n"
                   \o "    +suggestion : \"Try uploading a project with class definitions\"\n"
                   \o "  }\n"))

generateSequenceDiagram(parsedFiles) ==
    LET components == componentsOf(parsedFiles)
        declared == SubSeq(components, 1, min(5, Len(components)))
    IN  normalizeShapes(
          "sequenceDiagram\n"
          \o (IF Len(components) > 0
              THEN "  participant User\n"
                   \o concatStrings([c \in 1..Len(declared) |->
                          "  participant " \o declared[c].name \o "\n"])
                   \o "  User->>+" \o components[1].name \o ": interaction\n"
                   \o concatStrings([c \in 1..(Len(components) - 1) |->
                          "  " \o components[c].name \o "->>+" \o components[c + 1].name
                               \o ": data/props\n"])
              ELSE ""))

(***************************************************************************)
(* Inputs of the two string functions.                                     *)
(***************************************************************************)
MaxSuffix == 3
MaxBody == 3

RECURSIVE Strings(_, _)
\* the strings over alphabet of length at most n
Strings(alphabet, n) ==
    IF n = 0 THEN {""}
    ELSE LET shorter == Strings(alphabet, n - 1)
         IN  shorter \cup {s \o c : s \in shorter, c \in alphabet}

RECURSIVE Pad(_)
Pad(n) == IF n = 0 THEN "" ELSE "a" \o Pad(n - 1)

IdAlphabet == {"a", "7", "_", "/", "\\", "."}
\* ids are a run of letters around the length cap followed by a short tail
IdInputs ==
    {Pad(n) \o t : n \in {0, IdMaxLength - 2, IdMaxLength - 1, IdMaxLength},
                   t \in Strings(IdAlphabet, MaxSuffix)}

DslHeaders == {"graph TD\n", "classDiagram\n", "sequenceDiagram\n",
               "  graph LR\n", "flowchart TD\n", ""}
DslAlphabet == {"A", "\"", "[", "]", "(", ")", "{", "}"}
DslSamples ==
    {"graph TD\n  A[",
     "graph TD\n  A[\"x\"]\n  B[\"y\"]\n  A --> B\n",
     "graph TD\n  A{(\"x\")}\n",
     "graph TD\n  A[(\"x\")]\n  B([\"y\"])\n",
     "graph TD\n  A{[\"x\"]}\n  B({\"y\"})\n",
     "graph TD\n  A{(\"x\n\")}\n"}
DslInputs ==
    {h \o b : h \in DslHeaders, b \in Strings(DslAlphabet, MaxBody)} \cup DslSamples

(***************************************************************************)
(* The disks an analysis run is tried on.                                  *)
(***************************************************************************)
MaxFiles == 3

ref(form, source) == [form |-> form, source |-> source]
func(name, type, line) == [name |-> name, type |-> type, line |-> line, params |-> <<>>]
class(name, superClass, line) == [name |-> name, superClass |-> superClass, line |-> line]
component(name, type, line) == [name |-> name, type |-> type, line |-> line]
export(type, name) == [type |-> type, name |-> name]

text(grammarOk, size, refs, functions, classes, components, exports, blocks) ==
    [grammarOk |-> grammarOk, size |-> size, refs |-> refs, functions |-> functions,
     classes |-> classes, components |-> components, exports |-> exports,
     blocks |-> blocks]
block(tag, grammarOk, refs) ==
    [tag |-> tag, grammarOk |-> grammarOk, size |-> 0, refs |-> refs,
     functions |-> <<>>, classes |-> <<>>, components |-> <<>>, exports |-> <<>>,
     blocks |-> <<>>]
file(rel, readable, content) == [rel |-> rel, readable |-> readable, content |-> content]

noText == text(TRUE, 0, <<>>, <<>>, <<>>, <<>>, <<>>, <<>>)

FileUniverse ==
    { file("src/a.js", TRUE,
           text(TRUE, 80, <<ref("import", "react"), ref("import", "./b")>>,
                <<func("main", "function", 2)>>, <<>>, <<>>,
                <<export("default", "main")>>, <<>>)),
      file("src/a.js", TRUE,
           text(TRUE, 90, <<ref("require", "./lib"), ref("dynamic", "./b"),
                            ref("import", "./b.jsx")>>,
                <<func("start", "arrow_function", 3)>>, <<>>, <<>>, <<>>, <<>>)),
      file("src/b.js", TRUE,
           text(TRUE, 40, <<ref("import", "../src/b")>>,
                <<func("helper", "function", 1)>>,
                <<class("Store", "", 5)>>, <<>>, <<>>, <<>>)),
      file("src/b.jsx", TRUE,
           text(TRUE, 60, <<ref("import", "react")>>,
                <<func("Button", "function", 3)>>, <<>>,
                <<component("Button", "functional_component", 3)>>, <<>>, <<>>)),
      file("src/b.ts", TRUE, text(TRUE, 10, <<>>, <<>>, <<>>, <<>>, <<>>, <<>>)),
      file("src/lib/index.js", TRUE,
           text(TRUE, 30, <<ref("require", "lodash")>>, <<>>,
                <<class("Lib", "Base", 1)>>, <<>>, <<>>, <<>>)),
      file("src/broken.js", TRUE,
           text(FALSE, 25, <<ref("import", "./b")>>, <<>>, <<>>, <<>>, <<>>, <<>>)),
      file("src/locked.js", FALSE, noText),
      file("notes.txt", TRUE, noText),
      file("node_modules/react/index.js", TRUE,
           text(TRUE, 20, <<>>, <<func("createElement", "function", 1)>>,
                <<>>, <<>>, <<>>, <<>>)),
      file("src/page.html", TRUE,
           text(TRUE, 70, <<ref("stylesheet", "./main.css"), ref("script", "./a.js"),
                            ref("script", "https://cdn.example/x.js")>>,
                <<>>, <<>>, <<>>, <<>>, <<>>)),
      file("src/main.css", TRUE,
           text(TRUE, 15, <<ref("css_import", "./page.html"), ref("css_import", "theme.css")>>,
                <<>>, <<>>, <<>>, <<>>, <<>>)),
      file("src/App.vue", TRUE,
           text(TRUE, 120, <<>>, <<>>, <<>>, <<>>, <<>>,
                <<block("template", TRUE, <<ref("script", "./a.js")>>),
                  block("script", TRUE, <<ref("import", "./b")>>),
                  block("style", TRUE, <<ref("css_import", "./main.css")>>)>>)) }

Directories ==
    {d \in SUBSET FileUniverse :
        /\ Cardinality(d) <= MaxFiles
        /\ \A f, g \in d : f.rel = g.rel => f = g}

\* an upload directory of the server, and a root given relative to the working
\* directory
RootPaths == {"/srv/app/uploads/p1", "p1"}

\* the sequences that list every element of S once
Orderings(S) ==
    {o \in [1..Cardinality(S) -> S] : \A i, j \in 1..Cardinality(S) : o[i] = o[j] => i = j}

emptyGraph == [nodes |-> <<>>, edges |-> <<>>]
noProjectData == [exists |-> FALSE, parseResults |-> <<>>, dependencyGraph |-> emptyGraph]

(***************************************************************************)
(* An analysis run: parseDirectory, generateDependencyGraph and            *)
(* saveProjectData, as router.post('/folder') and router.post('/github')   *)
(* call them.                                                              *)
(***************************************************************************)
sanitizeIdle == sPc = "idle" /\ sIn = "" /\ sOut = "" /\ sOut2 = ""
validateIdle == vPc = "idle" /\ vDsl = "" /\ vResult = [isValid |-> TRUE, errors |-> <<>>]
defaultOptions ==
    [direction |-> "LR", includeExternal |-> FALSE, maxNodes |-> 50,
     groupByDirectory |-> TRUE]
diagramIdle ==
    /\ dPc = "idle" /\ dKind = "" /\ dOptions = defaultOptions /\ mermaidDSL = ""
    /\ validation = [isValid |-> TRUE, errors |-> <<>>]
noRequest == [route |-> "", query |-> <<>>, body |-> <<>>]
noResponse == [status |-> 0]
routeIdle == request = noRequest /\ response = noResponse
noTree == [type |-> "", name |-> "", params |-> 0, init |-> "", superName |-> "",
           superProperty |-> "", line |-> 0, children |-> <<>>]
componentIdle == cPc = "idle" /\ ast = noTree /\ cComponents = <<>>
noCall == [route |-> "", projectId |-> "", status |-> 0, afterDeletion |-> FALSE]
chatIdle ==
    /\ projectStore = {} /\ projectContexts = <<>> /\ deletedIds = {}
    /\ lastCall = noCall
null == [isNull |-> TRUE, content |-> ""]
fileIdle == fPc = "idle" /\ fProjectId = "" /\ fFilePath = "" /\ fContent = null
streamIdle ==
    /\ stPc = "idle" /\ tokens = <<>> /\ emitted = "" /\ wire = ""
    /\ accumulated = ""
otherIdle == componentIdle /\ chatIdle /\ fileIdle /\ streamIdle
runIdle ==
    /\ pc = "idle" /\ dirPath = "" /\ disk = {} /\ files = <<>> /\ parseResults = <<>>
    /\ dependencyGraph = emptyGraph /\ projectData = noProjectData
    /\ givenContent = noText

InitRun ==
    /\ pc = "start"
    /\ dirPath \in RootPaths
    /\ disk \in Directories
    /\ files = <<>>
    /\ parseResults = <<>>
    /\ dependencyGraph = emptyGraph
    /\ projectData = noProjectData
    /\ givenContent = noText
    /\ sanitizeIdle /\ validateIdle /\ diagramIdle /\ routeIdle /\ otherIdle

pathOf(f) == dirPath \o "/" \o f.rel

\* const files = await glob(pattern, { ignore })
Glob ==
    /\ pc = "start"
    /\ \E order \in Orderings({pathOf(f) : f \in {g \in disk : globMatches(pathOf(g))}}) :
           files' = order
    /\ pc' = "parsing"
    /\ UNCHANGED <<dirPath, disk, parseResults, dependencyGraph, projectData>>
    /\ UNCHANGED <<givenContent, sanitizeVars, validateVars, diagramVars, routeVars, otherVars>>

\* one iteration of the for loop of parseDirectory
ParseNextFile ==
    /\ pc = "parsing"
    /\ Len(parseResults) < Len(files)
    /\ LET filePath == files[Len(parseResults) + 1]
           f == CHOOSE g \in disk : pathOf(g) = filePath
       IN  parseResults' = Append(parseResults, parseFile(filePath, f))
    /\ UNCHANGED <<pc, dirPath, disk, files, dependencyGraph, projectData>>
    /\ UNCHANGED <<givenContent, sanitizeVars, validateVars, diagramVars, routeVars, otherVars>>

\* a route that would build the graph while parseDirectory is still parsing
GenerateDependencyGraphEarly ==
    /\ pc = "parsing"
    /\ dependencyGraph' = generateDependencyGraph(parseResults)
    /\ pc' = "graphed"
    /\ UNCHANGED <<dirPath, disk, files, parseResults, projectData>>
    /\ UNCHANGED <<givenContent, sanitizeVars, validateVars, diagramVars, routeVars, otherVars>>

\* parseDirectory returns and the route builds the graph
GenerateDependencyGraph ==
    /\ pc = "parsing"
    /\ Len(parseResults) = Len(files)
    /\ dependencyGraph' = generateDependencyGraph(parseResults)
    /\ pc' = "graphed"
    /\ UNCHANGED <<dirPath, disk, files, parseResults, projectData>>
    /\ UNCHANGED <<givenContent, sanitizeVars, validateVars, diagramVars, routeVars, otherVars>>

\* await saveProjectData(projectId, projectData)
SaveProjectData ==
    /\ pc = "graphed"
    /\ projectData' = [exists |-> TRUE, parseResults |-> parseResults,
                       dependencyGraph |-> dependencyGraph]
    /\ pc' = "saved"
    /\ UNCHANGED <<dirPath, disk, files, parseResults, dependencyGraph>>
    /\ UNCHANGED <<givenContent, sanitizeVars, validateVars, diagramVars, routeVars, otherVars>>

\* the catch block of the route: the extraction or the clone, the glob, or the
\* write of saveProjectData rejects, and the route answers 500
CatchError ==
    /\ pc \in {"start", "graphed"}
    /\ pc' = "failed"
    /\ UNCHANGED <<dirPath, disk, files, parseResults, dependencyGraph, projectData>>
    /\ UNCHANGED <<givenContent, sanitizeVars, validateVars, diagramVars, routeVars, otherVars>>

NextRun ==
    Glob \/ ParseNextFile \/ GenerateDependencyGraph \/ SaveProjectData \/ CatchError

SpecRun == InitRun /\ [][NextRun]_vars

(***************************************************************************)
(* parseFile called on its own, on any path, with or without a content     *)
(* argument.                                                               *)
(***************************************************************************)
\* single-file components whose script, template and first style block parse or fail
VueInputs ==
    { file("src/Card.vue", TRUE,
           text(TRUE, 150, <<>>, <<>>, <<>>, <<>>, <<>>,
                <<block("template", templateOk, <<ref("script", "./a.js"),
                                                  ref("stylesheet", "./card.css")>>),
                  block("script", scriptOk, <<ref("import", "./b"), ref("import", "vue")>>),
                  block("style", styleOk, <<ref("css_import", "./main.css")>>),
                  block("style", TRUE, <<ref("css_import", "./theme.css")>>)>>)) :
      templateOk \in BOOLEAN, scriptOk \in BOOLEAN, styleOk \in BOOLEAN }

ParseFileInputs ==
    FileUniverse \cup
    { file("src/Big.JS", TRUE,
           text(TRUE, 35, <<ref("import", "./a")>>, <<func("big", "function", 1)>>,
                <<>>, <<>>, <<>>, <<>>)),
      file("README", TRUE, noText),
      file("src/gone.ts", FALSE, noText) }
    \cup VueInputs

GivenContents ==
    { noText,
      text(TRUE, 12, <<ref("import", "vue")>>, <<func("given", "function", 1)>>,
           <<>>, <<>>, <<>>, <<>>),
      text(FALSE, 7, <<>>, <<>>, <<>>, <<>>, <<>>, <<>>) }

InitParseFile ==
    /\ pc = "call"
    /\ dirPath \in RootPaths
    /\ \E f \in ParseFileInputs : disk = {f}
    /\ givenContent \in GivenContents
    /\ files = <<>>
    /\ parseResults = <<>>
    /\ dependencyGraph = emptyGraph
    /\ projectData = noProjectData
    /\ sanitizeIdle /\ validateIdle /\ diagramIdle /\ routeIdle /\ otherIdle

\* await astParser.parseFile(filePath, content)
ParseFile ==
    /\ pc = "call"
    /\ \E f \in disk :
           /\ files' = <<pathOf(f)>>
           /\ parseResults' = <<parseFileWithContent(pathOf(f), givenContent, f)>>
    /\ pc' = "returned"
    /\ UNCHANGED <<dirPath, disk, dependencyGraph, projectData, givenContent>>
    /\ UNCHANGED <<sanitizeVars, validateVars, diagramVars, routeVars, otherVars>>

NextParseFile == ParseFile

SpecParseFile == InitParseFile /\ [][NextParseFile]_vars

(***************************************************************************)
(* The diagrams of a project: a run over an upload directory, or a project *)
(* file already in data/projects, and then one call of the MermaidService  *)
(* with validateMermaidDSL on its result, as every diagram route makes.    *)
(***************************************************************************)
DiagramRoot == "/srv/app/uploads/p1"

DiagramFiles ==
    {f \in FileUniverse :
        \/ f.rel \in {"src/b.jsx", "src/b.ts", "src/lib/index.js", "src/App.vue"}
        \/ f.rel = "src/a.js" /\ f.content.size = 80}

DiagramDirectories == {d \in Directories : d \subseteq DiagramFiles}

Directions == {"LR", "TD"}
FlowchartOptions ==
    [direction : Directions, includeExternal : BOOLEAN, maxNodes : {1, 2, 50},
     groupByDirectory : BOOLEAN]

\* a node that names a package or carries the external marker
packageNode(id, type, external) ==
    [id |-> id, label |-> basename(id), type |-> type, size |-> 0,
     functions |-> 0, classes |-> 0, components |-> 0, external |-> external]

StoredRecords ==
    [i \in 1..2 |->
        LET rel == <<"src/a.js", "src/b.jsx">>[i]
        IN  parseFile(DiagramRoot \o "/" \o rel, CHOOSE f \in DiagramFiles : f.rel = rel)]

\* what a project file may list beside the files of the run
PackageGraphs ==
    { [nodes |-> << packageNode("moment", "", FALSE), packageNode("react", "", FALSE) >>,
       edges |-> <<>>],
      [nodes |-> << packageNode(DiagramRoot \o "/node_modules/lodash/index.js", ".js", FALSE),
                    packageNode(DiagramRoot \o "/src/vendor.js", ".js", TRUE),
                    packageNode("Moment", "", FALSE) >>,
       edges |-> <<>>] }

\* the records of a project of one file that declares six components
WidgetRecords ==
    << parseFile(DiagramRoot \o "/src/widgets.jsx",
           file("src/widgets.jsx", TRUE,
                text(TRUE, 300, <<>>, <<>>, <<>>,
                     [i \in 1..6 |->
                         component(<<"Head", "Menu", "Body", "Side", "Foot", "Toast">>[i],
                                   "functional_component", i)],
                     <<>>, <<>>))) >>

\* the records of a project whose one file has a base name of 52 characters
PanelRecords ==
    << parseFile(DiagramRoot \o "/src/AccountNotificationSettingsPanelWithKeyboardHelp.jsx",
           file("src/AccountNotificationSettingsPanelWithKeyboardHelp.jsx", TRUE,
                text(TRUE, 200, <<>>, <<func("Panel", "function", 4)>>, <<>>,
                     <<component("Panel", "functional_component", 4)>>, <<>>, <<>>))) >>

StoredProjects ==
    { [exists |-> TRUE, parseResults |-> StoredRecords,
       dependencyGraph |->
           [nodes |-> generateDependencyGraph(StoredRecords).nodes \o extra.nodes,
            edges |-> generateDependencyGraph(StoredRecords).edges \o extra.edges]] :
      extra \in PackageGraphs }
    \cup
    { [exists |-> TRUE, parseResults |-> records,
       dependencyGraph |-> generateDependencyGraph(records)] :
      records \in {WidgetRecords, PanelRecords} }

InitDiagram ==
    /\ \/ /\ pc = "start"
          /\ disk \in DiagramDirectories
          /\ projectData = noProjectData
       \/ /\ pc = "saved"
          /\ disk = {}
          /\ projectData \in StoredProjects
    /\ dirPath = DiagramRoot
    /\ files = <<>>
    /\ parseResults = <<>>
    /\ dependencyGraph = emptyGraph
    /\ givenContent = noText
    /\ sanitizeIdle /\ validateIdle /\ diagramIdle /\ routeIdle /\ otherIdle

\* mermaidService.generateFlowchart(graph, options), then validateMermaidDSL
GenerateFlowchart ==
    /\ pc = "saved" /\ dPc = "idle"
    /\ \E options \in FlowchartOptions :
          /\ dOptions' = options
          /\ mermaidDSL' = generateFlowchart(projectData.dependencyGraph, options)
    /\ validation' = validateMermaidDSL(mermaidDSL')
    /\ dKind' = "dependency"
    /\ dPc' = "validated"
    /\ UNCHANGED <<runVars, sanitizeVars, validateVars, routeVars, otherVars>>

GenerateComponentDiagram ==
    /\ pc = "saved" /\ dPc = "idle"
    /\ mermaidDSL' = generateComponentDiagram(projectData.parseResults)
    /\ validation' = validateMermaidDSL(mermaidDSL')
    /\ dKind' = "components"
    /\ dPc' = "validated"
    /\ UNCHANGED <<dOptions, runVars, sanitizeVars, validateVars, routeVars, otherVars>>

GenerateFunctionCallGraph ==
    /\ pc = "saved" /\ dPc = "idle"
    /\ mermaidDSL' = generateFunctionCallGraph(projectData.parseResults)
    /\ validation' = validateMermaidDSL(mermaidDSL')
    /\ dKind' = "functions"
    /\ dPc' = "validated"
    /\ UNCHANGED <<dOptions, runVars, sanitizeVars, validateVars, routeVars, otherVars>>

GenerateClassDiagram ==
    /\ pc = "saved" /\ dPc = "idle"
    /\ mermaidDSL' = generateClassDiagram(projectData.parseResults)
    /\ validation' = validateMermaidDSL(mermaidDSL')
    /\ dKind' = "classes"
    /\ dPc' = "validated"
    /\ UNCHANGED <<dOptions, runVars, sanitizeVars, validateVars, routeVars, otherVars>>

GenerateSequenceDiagram ==
    /\ pc = "saved" /\ dPc = "idle"
    /\ mermaidDSL' = generateSequenceDiagram(projectData.parseResults)
    /\ validation' = validateMermaidDSL(mermaidDSL')
    /\ dKind' = "sequence"
    /\ dPc' = "validated"
    /\ UNCHANGED <<dOptions, runVars, sanitizeVars, validateVars, routeVars, otherVars>>

NextDiagram ==
    \/ Glob \/ ParseNextFile \/ GenerateDependencyGraph \/ SaveProjectData
    \/ GenerateFlowchart \/ GenerateComponentDiagram \/ GenerateFunctionCallGraph
    \/ GenerateClassDiagram \/ GenerateSequenceDiagram

SpecDiagram == InitDiagram /\ [][NextDiagram]_vars

(***************************************************************************)
(* The diagram endpoints: each action is one request handled from the      *)
(* loading of the project file to the response.                            *)
(***************************************************************************)
\* a JavaScript number that may be NaN
number(n) == [nan |-> FALSE, value |-> n]
NaN == [nan |-> TRUE, value |-> 0]

RECURSIVE digitsValue(_, _, _)
\* the value of the decimal digits that s has from position i on, after acc; 
\* the position behind them
digitsValue(s, i, acc) ==
    IF i <= Len(s) /\ CharAt(s, i) \in Digits
    THEN digitsValue(s, i + 1,
                     acc * 10 + ((CHOOSE k \in 1..10 : CharAt("0123456789", k) = CharAt(s, i)) - 1))
    ELSE [value |-> acc, next |-> i]

\* parseInt(s) of a string without a radix prefix: white space, a sign, digits
parseInt(s) ==
    LET t == trimStart(s)
        negative == Len(t) > 0 /\ CharAt(t, 1) = "-"
        first == IF Len(t) > 0 /\ CharAt(t, 1) \in {"-", "+"} THEN 2 ELSE 1
        parsed == digitsValue(t, first, 0)
    IN  IF parsed.next = first THEN NaN
        ELSE number(IF negative THEN 0 - parsed.value ELSE parsed.value)

\* const { direction = 'LR', includeExternal = false, maxNodes = 50,
\*         groupByDirectory = true } = req.query, and the options built from them
queryOptions(query) ==
    [direction |-> toUpperCase(IF "direction" \in DOMAIN query
                               THEN query.direction ELSE "LR"),
     includeExternal |-> "includeExternal" \in DOMAIN query
                         /\ query.includeExternal = "true",
     maxNodes |-> IF "maxNodes" \in DOMAIN query
                  THEN parseInt(query.maxNodes) ELSE number(50),
     groupByDirectory |-> "groupByDirectory" \in DOMAIN query
                          /\ query.groupByDirectory = "true"]

\* generateFlowchart's destructuring of its options argument: a missing field takes
\* its default
destructure(options) ==
    [direction |-> IF "direction" \in DOMAIN options
                   THEN options.direction ELSE defaultOptions.direction,
     includeExternal |-> IF "includeExternal" \in DOMAIN options
                         THEN options.includeExternal ELSE defaultOptions.includeExternal,
     maxNodes |-> IF "maxNodes" \in DOMAIN options
                  THEN options.maxNodes ELSE number(defaultOptions.maxNodes),
     groupByDirectory |-> IF "groupByDirectory" \in DOMAIN options
                          THEN options.groupByDirectory
                          ELSE defaultOptions.groupByDirectory]

\* generateFlowchart on options whose maxNodes is a JavaScript number:
\* nodes.length > NaN is false, so NaN cuts nothing, as a cap of nodes.length does
flowchartOf(graph, options) ==
    LET given == destructure(options) IN
    generateFlowchart(graph,
        [given EXCEPT !.maxNodes = IF @.nan THEN Len(graph.nodes) ELSE @.value])

\* the nodes of the fallback graph whose label, lower-cased, names an entry file
isMainFile(n) ==
    LET label == toLowerCase(n.label)
    IN  includes(label, "index") \/ includes(label, "main") \/ includes(label, "app")

generateFallbackGraph(data) ==
    LET nodes == [i \in 1..Len(data.parseResults) |->
                     LET f == data.parseResults[i] IN
                     [id |-> f.filePath, label |-> basename(f.filePath),
                      type |-> extname(f.filePath), size |-> f.size,
                      functions |-> Len(f.functions), classes |-> Len(f.classes),
                      components |-> Len(f.components), external |-> FALSE]]
        jsFiles == filter(nodes, LAMBDA n : n.type \in {".js", ".jsx", ".ts", ".tsx"})
        mainFiles == filter(nodes, isMainFile)
        targets == SubSeq(jsFiles, 1, min(5, Len(jsFiles)))
    IN  [nodes |-> nodes,
         edges |-> concatAll([m \in 1..Len(mainFiles) |->
                      LET others == filter(targets, LAMBDA n : n.id # mainFiles[m].id)
                      IN  [k \in 1..Len(others) |->
                              [from |-> mainFiles[m].id, to |-> others[k].id,
                               type |-> "import", label |-> "imports"]]])]

\* res.json({ success: true, mermaidDSL, validation, options, note })
ok(dsl, result, options, note) ==
    [status |-> 200, mermaidDSL |-> dsl, validation |-> result, options |-> options,
     note |-> note]
notFound == [status |-> 404]
badRequest == [status |-> 400]

safeFlowchart ==
    "graph TD\n  A[\"Diagram Generation Error\"] --> B[\"Invalid Mermaid detected\"]\n"
    \o "  B --> C[\"Fallback diagram shown\"]\n"
    \o "  classDef error fill:#ff6b6b,stroke:#c92a2a,color:#fff\n  class A,B,C error"
safeComponents ==
    "graph TD\n  A[\"Diagram Generation Error\"] --> B[\"Invalid Mermaid detected\"]\n"
    \o "  B --> C[\"Fallback diagram shown\"]"
safeFunctions ==
    "graph TD\n  A[\"Diagram Generation Error\"] --> B[\"Invalid Mermaid detected\"]"
safeClasses ==
    "classDiagram\n  class Error {\n    +message \"Invalid Mermaid detected\"\n  }"
safeSequence ==
    "sequenceDiagram\n  participant A as Error\n  A->>A: Invalid Mermaid detected"

\* a response with the text, or with the safe text when the text is not valid
substituted(dsl, safe, options) ==
    LET result == validateMermaidDSL(dsl) IN
    IF ~result.isValid
    THEN ok(safe, result, options, "Returned safe fallback due to invalid DSL")
    ELSE ok(dsl, result, options, "")

\* router.get('/dependency/:projectId')
dependencyResponse(data, query) ==
    IF ~data.exists THEN notFound
    ELSE LET options == queryOptions(query) IN
         IF Len(data.dependencyGraph.nodes) = 0
         THEN LET dsl == flowchartOf(generateFallbackGraph(data), options)
              IN  ok(dsl, validateMermaidDSL(dsl), options,
                     "Generated from file structure (dependency analysis incomplete)")
         ELSE substituted(flowchartOf(data.dependencyGraph, options), safeFlowchart,
                          options)

\* the four endpoints that project the parse results
componentsResponse(data) ==
    IF ~data.exists THEN notFound
    ELSE substituted(generateComponentDiagram(data.parseResults), safeComponents, <<>>)
functionsResponse(data) ==
    IF ~data.exists THEN notFound
    ELSE substituted(generateFunctionCallGraph(data.parseResults), safeFunctions, <<>>)
classesResponse(data) ==
    IF ~data.exists THEN notFound
    ELSE substituted(generateClassDiagram(data.parseResults), safeClasses, <<>>)
sequenceResponse(data) ==
    IF ~data.exists THEN notFound
    ELSE substituted(generateSequenceDiagram(data.parseResults), safeSequence, <<>>)

\* applyFilters for filters without a pathPattern
applyFilters(parsedFiles, filters) ==
    LET byExtension ==
            IF "extensions" \in DOMAIN filters /\ Len(filters.extensions) > 0
            THEN filter(parsedFiles,
                        LAMBDA f : \E e \in 1..Len(filters.extensions) :
                                       filters.extensions[e] = f.extension)
            ELSE parsedFiles
        byFunctions ==
            IF "minFunctions" \in DOMAIN filters /\ filters.minFunctions # 0
            THEN filter(byExtension, LAMBDA f : Len(f.functions) >= filters.minFunctions)
            ELSE byExtension
    IN  IF "hasComponents" \in DOMAIN filters /\ filters.hasComponents = TRUE
        THEN filter(byFunctions, LAMBDA f : Len(f.components) > 0)
        ELSE byFunctions

filterDependencyGraph(graph, filters) ==
    LET filteredNodes ==
            IF "extensions" \in DOMAIN filters /\ Len(filters.extensions) > 0
            THEN filter(graph.nodes,
                        LAMBDA n : \E e \in 1..Len(filters.extensions) :
                                       filters.extensions[e] = n.type)
            ELSE graph.nodes
    IN  [nodes |-> filteredNodes, edges |-> filterEdges(graph.edges, filteredNodes)]

\* router.post('/custom/:projectId'): the text goes out as generated
customResponse(data, body) ==
    LET diagramType == IF "diagramType" \in DOMAIN body THEN body.diagramType
                       ELSE "flowchart"
        filters == IF "filters" \in DOMAIN body THEN body.filters ELSE <<>>
        options == IF "options" \in DOMAIN body THEN body.options ELSE <<>>
    IN  IF ~data.exists THEN notFound
        ELSE IF diagramType \notin {"dependency", "components", "functions", "classes",
                                    "sequence"}
             THEN badRequest
        ELSE LET filteredResults == applyFilters(data.parseResults, filters)
                 dsl == CASE diagramType = "dependency" ->
                                 flowchartOf(filterDependencyGraph(data.dependencyGraph,
                                                                   filters), options)
                          [] diagramType = "components" ->
                                 generateComponentDiagram(filteredResults)
                          [] diagramType = "functions" ->
                                 generateFunctionCallGraph(filteredResults)
                          [] diagramType = "classes" ->
                                 generateClassDiagram(filteredResults)
                          [] diagramType = "sequence" ->
                                 generateSequenceDiagram(filteredResults)
             IN  ok(dsl, validateMermaidDSL(dsl), options, "")

\* the files of the projects the endpoints are asked about: one has a base name of
\* 52 characters
RouteFiles ==
    {f \in FileUniverse :
        \/ f.rel = "src/lib/index.js"
        \/ f.rel = "src/a.js" /\ f.content.size = 80}
    \cup
    { file("src/AccountNotificationSettingsPanelWithKeyboardHelp.jsx", TRUE,
           text(TRUE, 200, <<ref("import", "./a")>>,
                <<func("Panel", "function", 4)>>, <<>>,
                <<component("Panel", "functional_component", 4)>>, <<>>, <<>>)) }

RouteDirectories == {d \in SUBSET RouteFiles : Cardinality(d) <= MaxFiles}

QueryNames == {"direction", "includeExternal", "maxNodes", "groupByDirectory"}
FullQueries ==
    [direction : {"td", "sideways"}, includeExternal : {"true", "yes"},
     maxNodes : {"1", "abc"}, groupByDirectory : {"true", "false"}]
\* the query strings: each parameter given or left out
DependencyQueries ==
    { [k \in names |-> q[k]] : q \in FullQueries, names \in SUBSET QueryNames }

BodyNames == {"diagramType", "filters", "options"}
FullBodies ==
    [diagramType : {"dependency", "components", "functions", "classes", "sequence"},
     filters : { [extensions |-> <<".jsx">>] },
     options : { [includeExternal |-> TRUE, maxNodes |-> number(1)] }]
\* the request bodies: each field given or left out
CustomBodies ==
    { [k \in names |-> b[k]] : b \in FullBodies, names \in SUBSET BodyNames }

InitRoutes ==
    /\ pc = "start"
    /\ dirPath = DiagramRoot
    /\ disk \in RouteDirectories
    /\ files = <<>>
    /\ parseResults = <<>>
    /\ dependencyGraph = emptyGraph
    /\ projectData = noProjectData
    /\ givenContent = noText
    /\ sanitizeIdle /\ validateIdle /\ diagramIdle /\ routeIdle /\ otherIdle

DependencyRoute ==
    /\ request = noRequest
    /\ \E q \in DependencyQueries :
          /\ request' = [route |-> "dependency", query |-> q, body |-> <<>>]
          /\ response' = dependencyResponse(projectData, q)
    /\ UNCHANGED <<runVars, sanitizeVars, validateVars, diagramVars, otherVars>>

ComponentsRoute ==
    /\ request = noRequest
    /\ request' = [route |-> "components", query |-> <<>>, body |-> <<>>]
    /\ response' = componentsResponse(projectData)
    /\ UNCHANGED <<runVars, sanitizeVars, validateVars, diagramVars, otherVars>>

FunctionsRoute ==
    /\ request = noRequest
    /\ request' = [route |-> "functions", query |-> <<>>, body |-> <<>>]
    /\ response' = functionsResponse(projectData)
    /\ UNCHANGED <<runVars, sanitizeVars, validateVars, diagramVars, otherVars>>

ClassesRoute ==
    /\ request = noRequest
    /\ request' = [route |-> "classes", query |-> <<>>, body |-> <<>>]
    /\ response' = classesResponse(projectData)
    /\ UNCHANGED <<runVars, sanitizeVars, validateVars, diagramVars, otherVars>>

SequenceRoute ==
    /\ request = noRequest
    /\ request' = [route |-> "sequence", query |-> <<>>, body |-> <<>>]
    /\ response' = sequenceResponse(projectData)
    /\ UNCHANGED <<runVars, sanitizeVars, validateVars, diagramVars, otherVars>>

CustomRoute ==
    /\ request = noRequest
    /\ \E b \in CustomBodies :
          /\ request' = [route |-> "custom", query |-> <<>>, body |-> b]
          /\ response' = customResponse(projectData, b)
    /\ UNCHANGED <<runVars, sanitizeVars, validateVars, diagramVars, otherVars>>

NextRoutes ==
    \/ Glob \/ ParseNextFile \/ GenerateDependencyGraph \/ SaveProjectData
    \/ CatchError
    \/ DependencyRoute \/ ComponentsRoute \/ FunctionsRoute \/ ClassesRoute
    \/ SequenceRoute \/ CustomRoute

SpecRoutes == InitRoutes /\ [][NextRoutes]_vars

(***************************************************************************)
(* sanitizeId as a state machine: an id is sanitized, then its token is    *)
(* sanitized again.                                                        *)
(***************************************************************************)
InitSanitize ==
    /\ sPc = "input" /\ sIn \in IdInputs /\ sOut = "" /\ sOut2 = ""
    /\ validateIdle /\ runIdle /\ diagramIdle /\ routeIdle /\ otherIdle

Sanitize ==
    /\ sPc = "input"
    /\ sOut' = sanitizeId(sIn)
    /\ sPc' = "once"
    /\ UNCHANGED <<sIn, sOut2, validateVars, runVars, diagramVars, routeVars, otherVars>>

Resanitize ==
    /\ sPc = "once"
    /\ sOut2' = sanitizeId(sOut)
    /\ sPc' = "twice"
    /\ UNCHANGED <<sIn, sOut, validateVars, runVars, diagramVars, routeVars, otherVars>>

NextSanitize == Sanitize \/ Resanitize

SpecSanitize == InitSanitize /\ [][NextSanitize]_vars

(***************************************************************************)
(* validateMermaidDSL as a state machine.                                  *)
(***************************************************************************)
InitValidate ==
    /\ vPc = "input" /\ vDsl \in DslInputs
    /\ vResult = [isValid |-> TRUE, errors |-> <<>>]
    /\ sanitizeIdle /\ runIdle /\ diagramIdle /\ routeIdle /\ otherIdle

Validate ==
    /\ vPc = "input"
    /\ vResult' = validateMermaidDSL(vDsl)
    /\ vPc' = "validated"
    /\ UNCHANGED <<vDsl, sanitizeVars, runVars, diagramVars, routeVars, otherVars>>

NextValidate == Validate

SpecValidate == InitValidate /\ [][NextValidate]_vars

(***************************************************************************)
(* normalizeShapes as a state machine: a text is normalized, then the       *)
(* result is normalized again.                                              *)
(***************************************************************************)
MaxWraps == 3

RECURSIVE Wrapped(_, _)
\* a quoted label inside n shape brackets
Wrapped(label, n) ==
    IF n = 0 THEN {"\"" \o label \o "\""}
    ELSE {o \o w \o brackets(o) : o \in Openers, w \in Wrapped(label, n - 1)}

ShapeInputs ==
    {"graph TD\n  A" \o w \o "\n" :
        w \in UNION {Wrapped(label, n) : label \in {"x", "a b", "x\ny"}, n \in 1..MaxWraps}}
    \cup {"graph TD\n  A{(\"x\")} --> B[(\"y\")]\n",
          "graph TD\n  A([\"x\"]) --> B({\"y\"})\n  C{[\"z\"]}\n",
          "graph TD\n  A[\"x\"] --> B(\"y\")\n"}

InitNormalize ==
    /\ vPc = "input" /\ vDsl \in ShapeInputs
    /\ vResult = [isValid |-> TRUE, errors |-> <<>>]
    /\ sanitizeIdle /\ runIdle /\ diagramIdle /\ routeIdle /\ otherIdle

\* return this.normalizeShapes(mermaidDSL), and the validation of the result
NormalizeShapes ==
    /\ vPc = "input"
    /\ mermaidDSL' = normalizeShapes(vDsl)
    /\ validation' = validateMermaidDSL(mermaidDSL')
    /\ vPc' = "normalized"
    /\ UNCHANGED <<vDsl, vResult, dPc, dKind, dOptions>>
    /\ UNCHANGED <<sanitizeVars, runVars, routeVars, otherVars>>

\* normalizeShapes applied to its own result
NormalizeAgain ==
    /\ vPc = "normalized"
    /\ vDsl' = mermaidDSL
    /\ mermaidDSL' = normalizeShapes(mermaidDSL)
    /\ validation' = validateMermaidDSL(mermaidDSL')
    /\ vPc' = "renormalized"
    /\ UNCHANGED <<vResult, dPc, dKind, dOptions>>
    /\ UNCHANGED <<sanitizeVars, runVars, routeVars, otherVars>>

NextNormalize == NormalizeShapes \/ NormalizeAgain

SpecNormalize == InitNormalize /\ [][NextNormalize]_vars

(***************************************************************************)
(* ASTParserService.extractReactComponents.                                *)
(*                                                                         *)
(* A syntax tree node keeps what the walk reads: its type, the name of its *)
(* id, the number of its parameters, the type of a declarator's init, the  *)
(* name (Identifier) or property name (MemberExpression) of a superclass,  *)
(* the line it starts on, and its child nodes in key order.                *)
(***************************************************************************)
MaxStatements == 2

astNode(type, name, params, line, children) ==
    [type |-> type, name |-> name, params |-> params, init |-> "", superName |-> "",
     superProperty |-> "", line |-> line, children |-> children]

\* /^[A-Z]/.test(name)
isCapitalized(name) == name # "" /\ CharAt(name, 1) \in UpperLetters

\* node.superClass is set
hasSuperClass(n) == n.superName # "" \/ n.superProperty # ""

\* what one visit of traverse pushes for the node itself, the four tests in order
pushedAt(n) ==
    (IF n.type = "FunctionDeclaration" /\ isCapitalized(n.name)
     THEN <<[name |-> n.name, type |-> "functional_component", line |-> n.line,
             props |-> IF n.params > 0 THEN <<"props">> ELSE <<>>]>>
     ELSE <<>>)
    \o
    (IF n.type = "VariableDeclarator" /\ isCapitalized(n.name)
        /\ n.init \in {"ArrowFunctionExpression", "FunctionExpression"}
     THEN <<[name |-> n.name, type |-> "functional_component", line |-> n.line,
             props |-> IF n.params > 0 THEN <<"props">> ELSE <<>>]>>
     ELSE <<>>)
    \o
    (IF n.type = "ClassDeclaration" /\ hasSuperClass(n)
     THEN LET superClassName ==
                  IF n.superName # "" THEN n.superName
                  ELSE IF n.superProperty = "Component" THEN "React.Component" ELSE ""
          IN  IF superClassName \in {"Component", "React.Component"}
                 \/ n.superProperty = "Component"
              THEN <<[name |-> IF n.name # "" THEN n.name ELSE "anonymous",
                      type |-> "class_component", line |-> n.line,
                      superClass |-> IF superClassName # "" THEN superClassName
                                     ELSE "Component"]>>
              ELSE <<>>
     ELSE <<>>)
    \o
    (IF n.type = "ExportDefaultDeclaration" /\ Len(n.children) > 0
        /\ n.children[1].type = "FunctionDeclaration"
        /\ isCapitalized(n.children[1].name)
     THEN <<[name |-> n.children[1].name, type |-> "functional_component",
             line |-> n.line,
             props |-> IF n.children[1].params > 0 THEN <<"props">> ELSE <<>>,
             exported |-> TRUE]>>
     ELSE <<>>)

RECURSIVE traverse(_)
\* the pushes of a visit, then those of the visits of every child
traverse(n) ==
    pushedAt(n) \o concatAll([i \in 1..Len(n.children) |-> traverse(n.children[i])])

extractReactComponents(tree) == traverse(tree)

\* the statements the trees are built from, each starting on the given line
functionDeclaration(name, params, line, body) ==
    astNode("FunctionDeclaration", name, params, line, body)

variableDeclaration(name, initType, params, line) ==
    astNode("VariableDeclaration", "", 0, line,
         <<[astNode("VariableDeclarator", name, params, line, <<>>)
              EXCEPT !.init = initType]>>)

classDeclaration(name, superName, superProperty, line) ==
    [astNode("ClassDeclaration", name, 0, line, <<>>)
        EXCEPT !.superName = superName, !.superProperty = superProperty]

exportDefault(declaration) ==
    astNode("ExportDefaultDeclaration", "", 0, declaration.line, <<declaration>>)

exportNamed(declaration) ==
    astNode("ExportNamedDeclaration", "", 0, declaration.line, <<declaration>>)

StatementKinds == 1..15

Statement(kind, line) ==
    CASE kind = 1 -> functionDeclaration("App", 1, line, <<>>)
      [] kind = 2 -> functionDeclaration("helper", 0, line, <<>>)
      [] kind = 3 -> variableDeclaration("Card", "ArrowFunctionExpression", 1, line)
      [] kind = 4 -> variableDeclaration("Panel", "FunctionExpression", 0, line)
      [] kind = 5 -> variableDeclaration("value", "ArrowFunctionExpression", 0, line)
      [] kind = 6 -> variableDeclaration("Limit", "Literal", 0, line)
      [] kind = 7 -> classDeclaration("Page", "Component", "", line)
      [] kind = 8 -> classDeclaration("View", "", "Component", line)
      [] kind = 9 -> classDeclaration("Store", "Base", "", line)
      [] kind = 10 -> classDeclaration("Plain", "", "", line)
      [] kind = 11 -> exportDefault(functionDeclaration("Home", 1, line, <<>>))
      [] kind = 12 -> exportDefault(functionDeclaration("main", 0, line, <<>>))
      [] kind = 13 -> exportNamed(functionDeclaration("Widget", 0, line, <<>>))
      [] kind = 14 -> functionDeclaration("Outer", 0, line,
                          <<functionDeclaration("Inner", 0, line, <<>>)>>)
      [] kind = 15 -> exportDefault(classDeclaration("Shell", "Component", "", line))

Program(kinds) ==
    astNode("Program", "", 0, 1, [i \in 1..Len(kinds) |-> Statement(kinds[i], i)])

Programs ==
    {Program(kinds) : kinds \in UNION {[1..n -> StatementKinds] : n \in 0..MaxStatements}}

InitComponents ==
    /\ cPc = "parsed" /\ ast \in Programs /\ cComponents = <<>>
    /\ sanitizeIdle /\ validateIdle /\ runIdle /\ diagramIdle /\ routeIdle
    /\ chatIdle /\ fileIdle /\ streamIdle

\* result.components = this.extractReactComponents(ast)
ExtractReactComponents ==
    /\ cPc = "parsed"
    /\ cComponents' = extractReactComponents(ast)
    /\ cPc' = "extracted"
    /\ UNCHANGED <<ast, sanitizeVars, validateVars, runVars, diagramVars, routeVars>>
    /\ UNCHANGED <<chatVars, fileVars, streamVars>>

NextComponents == ExtractReactComponents

SpecComponents == InitComponents /\ [][NextComponents]_vars

(***************************************************************************)
(* The project store of the upload router and the chat router's contexts.  *)
(*                                                                         *)
(* Both routers read data/projects/<id>.json through loadProjectData; the  *)
(* chat router keeps the contexts it has built in the projectContexts Map. *)
(* An upload names its project with a fresh uuid.                          *)
(***************************************************************************)
ProjectIds == {"p1", "p2", "p3"}
Messages == {"", "  ", "what does App do"}

\* loadProjectData(projectId): the stored data, null when there is no file
loadProjectData(projectId) ==
    IF projectId \in projectStore
    THEN [exists |-> TRUE, id |-> projectId]
    ELSE [exists |-> FALSE, id |-> ""]

\* createProjectContext(projectId): null when the project has no data
createProjectContext(projectId) ==
    LET data == loadProjectData(projectId)
    IN  IF data.exists
        THEN [exists |-> TRUE, projectInfo |-> [id |-> data.id]]
        ELSE [exists |-> FALSE, projectInfo |-> [id |-> ""]]

\* projectContexts.get(projectId), or a context built now
contextFor(projectId) ==
    IF projectId \in DOMAIN projectContexts THEN projectContexts[projectId]
    ELSE createProjectContext(projectId)

\* projectContexts after the handler's lookup: a context built now is kept
contextsAfterLookup(projectId) ==
    IF projectId \notin DOMAIN projectContexts /\ createProjectContext(projectId).exists
    THEN [q \in DOMAIN projectContexts \cup {projectId} |->
             IF q = projectId THEN createProjectContext(projectId)
             ELSE projectContexts[q]]
    ELSE projectContexts

call(route, projectId, status) ==
    [route |-> route, projectId |-> projectId, status |-> status,
     afterDeletion |-> projectId \in deletedIds]

InitChat ==
    /\ chatIdle
    /\ sanitizeIdle /\ validateIdle /\ runIdle /\ diagramIdle /\ routeIdle
    /\ componentIdle /\ fileIdle /\ streamIdle

\* POST /upload/folder and /upload/github: the project is saved under a new uuid
UploadProject ==
    /\ \E projectId \in ProjectIds \ (projectStore \cup deletedIds) :
          /\ projectStore' = projectStore \cup {projectId}
          /\ lastCall' = call("upload", projectId, 200)
    /\ UNCHANGED <<projectContexts, deletedIds>>
    /\ UNCHANGED <<sanitizeVars, validateVars, runVars, diagramVars, routeVars>>
    /\ UNCHANGED <<componentVars, fileVars, streamVars>>

\* DELETE /upload/project/:projectId
DeleteProject ==
    /\ \E projectId \in ProjectIds :
          /\ projectStore' = projectStore \ {projectId}
          /\ deletedIds' = deletedIds \cup {projectId}
          /\ lastCall' = [call("delete", projectId, 200) EXCEPT !.afterDeletion = TRUE]
    /\ UNCHANGED projectContexts
    /\ UNCHANGED <<sanitizeVars, validateVars, runVars, diagramVars, routeVars>>
    /\ UNCHANGED <<componentVars, fileVars, streamVars>>

\* POST /chat/project/:projectId; generateResponse may fail
ChatRoute ==
    /\ \E projectId \in ProjectIds, message \in Messages, answered \in BOOLEAN :
          IF Len(trim(message)) = 0
          THEN /\ lastCall' = call("chat", projectId, 400)
               /\ UNCHANGED projectContexts
          ELSE IF ~contextFor(projectId).exists
          THEN /\ lastCall' = call("chat", projectId, 404)
               /\ UNCHANGED projectContexts
          ELSE /\ projectContexts' = contextsAfterLookup(projectId)
               /\ lastCall' = call("chat", projectId, IF answered THEN 200 ELSE 500)
    /\ UNCHANGED <<projectStore, deletedIds>>
    /\ UNCHANGED <<sanitizeVars, validateVars, runVars, diagramVars, routeVars>>
    /\ UNCHANGED <<componentVars, fileVars, streamVars>>

\* POST /chat/project/:projectId/stream; a failure after the headers is reported
\* inside the event stream
StreamRoute ==
    /\ \E projectId \in ProjectIds, message \in Messages :
          IF Len(trim(message)) = 0
          THEN /\ lastCall' = call("stream", projectId, 400)
               /\ UNCHANGED projectContexts
          ELSE IF ~contextFor(projectId).exists
          THEN /\ lastCall' = call("stream", projectId, 404)
               /\ UNCHANGED projectContexts
          ELSE /\ projectContexts' = contextsAfterLookup(projectId)
               /\ lastCall' = call("stream", projectId, 200)
    /\ UNCHANGED <<projectStore, deletedIds>>
    /\ UNCHANGED <<sanitizeVars, validateVars, runVars, diagramVars, routeVars>>
    /\ UNCHANGED <<componentVars, fileVars, streamVars>>

\* GET /chat/context/:projectId
ContextRoute ==
    /\ \E projectId \in ProjectIds :
          lastCall' = call("context", projectId,
                           IF loadProjectData(projectId).exists THEN 200 ELSE 404)
    /\ UNCHANGED <<projectStore, projectContexts, deletedIds>>
    /\ UNCHANGED <<sanitizeVars, validateVars, runVars, diagramVars, routeVars>>
    /\ UNCHANGED <<componentVars, fileVars, streamVars>>

\* POST /chat/search/:projectId
SearchRoute ==
    /\ \E projectId \in ProjectIds, query \in Messages :
          IF Len(trim(query)) = 0
          THEN /\ lastCall' = call("search", projectId, 400)
               /\ UNCHANGED projectContexts
          ELSE IF ~contextFor(projectId).exists
          THEN /\ lastCall' = call("search", projectId, 404)
               /\ UNCHANGED projectContexts
          ELSE /\ projectContexts' = contextsAfterLookup(projectId)
               /\ lastCall' = call("search", projectId, 200)
    /\ UNCHANGED <<projectStore, deletedIds>>
    /\ UNCHANGED <<sanitizeVars, validateVars, runVars, diagramVars, routeVars>>
    /\ UNCHANGED <<componentVars, fileVars, streamVars>>

\* GET /chat/files/:projectId
FilesRoute ==
    /\ \E projectId \in ProjectIds :
          IF ~contextFor(projectId).exists
          THEN /\ lastCall' = call("files", projectId, 404)
               /\ UNCHANGED projectContexts
          ELSE /\ projectContexts' = contextsAfterLookup(projectId)
               /\ lastCall' = call("files", projectId, 200)
    /\ UNCHANGED <<projectStore, deletedIds>>
    /\ UNCHANGED <<sanitizeVars, validateVars, runVars, diagramVars, routeVars>>
    /\ UNCHANGED <<componentVars, fileVars, streamVars>>

\* DELETE /chat/project/:projectId
ClearChatRoute ==
    /\ \E projectId \in ProjectIds :
          /\ projectContexts' =
                 [q \in DOMAIN projectContexts \ {projectId} |-> projectContexts[q]]
          /\ lastCall' = call("clear", projectId, 200)
    /\ UNCHANGED <<projectStore, deletedIds>>
    /\ UNCHANGED <<sanitizeVars, validateVars, runVars, diagramVars, routeVars>>
    /\ UNCHANGED <<componentVars, fileVars, streamVars>>

NextChat ==
    \/ UploadProject
    \/ DeleteProject
    \/ ChatRoute
    \/ StreamRoute
    \/ ContextRoute
    \/ SearchRoute
    \/ FilesRoute
    \/ ClearChatRoute

SpecChat == InitChat /\ [][NextChat]_vars

(***************************************************************************)
(* getFileContent of the chat router.                                      *)
(*                                                                         *)
(* The file system is a function from the absolute paths of its files to   *)
(* their text; a directory is a proper prefix of a file's path.            *)
(***************************************************************************)
routesDirname == "/srv/app/routes"

maxSize == 10000

ServerFiles ==
    [path \in {"/srv/app/uploads/p1/src/a.js", "/srv/app/uploads/p10/src/a.js",
               "/srv/app/uploads/p10/secret.txt", "/srv/app/uploads/p2/src/b.js",
               "/srv/app/.env"} |->
        CASE path = "/srv/app/uploads/p1/src/a.js" -> "export const a = 1"
          [] path = "/srv/app/uploads/p10/src/a.js" -> "export const a = 10"
          [] path = "/srv/app/uploads/p10/secret.txt" -> "token of p10"
          [] path = "/srv/app/uploads/p2/src/b.js" -> "export const b = 2"
          [] path = "/srv/app/.env" -> "GOOGLE_API_KEY=k"]

\* fs.pathExists: a file or a directory
pathExists(path) ==
    \E f \in DOMAIN ServerFiles : f = path \/ startsWith(f, path \o "/") \/ path = "/"

\* path.join of absolute path a and b, then path.resolve: separators collapse,
\* '.' is dropped and '..' pops a segment
joinResolved(a, b) ==
    "/" \o join(normalizeSegments(split(a \o "/" \o b, 1, ""), 1, <<>>))

getFileContent(projectId, filePath, fullContent) ==
    LET normalizedPath == replaceChars(filePath, {"\\"}, "/")
        prefix == "uploads/" \o projectId \o "/"
        cleanPath == IF startsWith(normalizedPath, prefix)
                     THEN substring(normalizedPath, Len(prefix), Len(normalizedPath))
                     ELSE normalizedPath
        uploadsPath == joinResolved(routesDirname, "../uploads/" \o projectId)
        resolvedPath == joinResolved(uploadsPath, cleanPath)
        resolvedUploadsPath == uploadsPath
    IN  IF ~startsWith(resolvedPath, resolvedUploadsPath) THEN null
        ELSE IF ~pathExists(resolvedPath) THEN null
        \* readFile of a directory throws, and the catch returns null
        ELSE IF resolvedPath \notin DOMAIN ServerFiles THEN null
        ELSE LET content == ServerFiles[resolvedPath]
             IN  IF fullContent \/ Len(content) <= maxSize
                 THEN [isNull |-> FALSE, content |-> content]
                 ELSE [isNull |-> FALSE,
                       content |-> substring(content, 0, maxSize)
                                   \o "\n\n... (file truncated due to size)"]

RequestedProjects == {"p1", "p10", "p2"}

RequestedPaths ==
    {"src/a.js", "src/b.js", "uploads/p1/src/a.js", "uploads/p10/secret.txt",
     "src\\a.js", "./src/a.js", "src/../src/a.js", "src", "", "missing.js",
     "secret.txt", "..", "../p1/src/a.js", "../p10/src/a.js", "../p10/secret.txt",
     "..\\p10\\secret.txt", "../p2/src/b.js", "src/../../p10/secret.txt",
     "../../.env", "/srv/app/.env", ".env", "src/./a.js", "src/a.js/",
     "uploads/p2/src/b.js", "../p100/src/a.js"}

InitFileContent ==
    /\ fPc = "called"
    /\ fProjectId \in RequestedProjects
    /\ fFilePath \in RequestedPaths
    /\ fContent = null
    /\ sanitizeIdle /\ validateIdle /\ runIdle /\ diagramIdle /\ routeIdle
    /\ componentIdle /\ chatIdle /\ streamIdle

\* await getFileContent(projectId, filePath, fullContent): the file route asks
\* for the full content, a file reference in a chat message does not
GetFileContent ==
    /\ fPc = "called"
    /\ \E fullContent \in BOOLEAN :
          fContent' = getFileContent(fProjectId, fFilePath, fullContent)
    /\ fPc' = "returned"
    /\ UNCHANGED <<fProjectId, fFilePath>>
    /\ UNCHANGED <<sanitizeVars, validateVars, runVars, diagramVars, routeVars>>
    /\ UNCHANGED <<componentVars, chatVars, streamVars>>

NextFileContent == GetFileContent

SpecFileContent == InitFileContent /\ [][NextFileContent]_vars

(***************************************************************************)
(* The streamed chat answer: the stream endpoint writes server-sent events *)
(* and ChatTab reads the response body chunk by chunk. The transport may   *)
(* cut the bytes written into chunks anywhere.                             *)
(***************************************************************************)
MaxTokens == 2

\* chunk.split(/\n/)
splitLines(chunk) ==
    LET seps == {k \in 1..Len(chunk) : CharAt(chunk, k) = "\n"}
        sepAt(n) == CHOOSE k \in seps : Cardinality({j \in seps : j < k}) = n - 1
        last == Cardinality(seps) + 1
    IN  [n \in 1..last |->
            LET from == IF n = 1 THEN 1 ELSE sepAt(n - 1) + 1
                to == IF n = last THEN Len(chunk) ELSE sepAt(n) - 1
            IN  IF to < from THEN "" ELSE SubSeq(chunk, from, to)]

RECURSIVE accumulateLines(_, _, _)
\* the loop over the lines of a chunk: a line that starts with "data: " adds what
\* follows the prefix, unless that is the end marker
accumulateLines(lines, i, acc) ==
    IF i > Len(lines) THEN acc
    ELSE LET line == lines[i]
             data == substring(line, 6, Len(line))
         IN  IF startsWith(line, "data: ") /\ data # "[DONE]"
             THEN accumulateLines(lines, i + 1, acc \o data)
             ELSE accumulateLines(lines, i + 1, acc)

\* what the model may hand to onToken, and an empty chunk text, which is skipped
TokenTexts == {"Hi", "a\nb", ""}

TokenSequences == UNION {[1..n -> TokenTexts] : n \in 0..MaxTokens}

InitStream ==
    /\ stPc = "streaming"
    /\ tokens \in TokenSequences
    /\ emitted = "" /\ wire = "" /\ accumulated = ""
    /\ sanitizeIdle /\ validateIdle /\ runIdle /\ diagramIdle /\ routeIdle
    /\ componentIdle /\ chatIdle /\ fileIdle

\* one turn of the loop of generateStreamResponse: a chunk text that is not empty
\* is handed to onToken, which writes it as a data event
EmitToken ==
    /\ stPc = "streaming" /\ Len(tokens) > 0
    /\ LET chunkText == Head(tokens)
       IN  IF chunkText # ""
           THEN /\ emitted' = emitted \o chunkText
                /\ wire' = wire \o "data: " \o chunkText \o "\n\n"
           ELSE UNCHANGED <<emitted, wire>>
    /\ tokens' = Tail(tokens)
    /\ UNCHANGED <<stPc, accumulated>>
    /\ UNCHANGED <<sanitizeVars, validateVars, runVars, diagramVars, routeVars>>
    /\ UNCHANGED <<componentVars, chatVars, fileVars>>

\* the completion signal, and res.end()
EndStream ==
    /\ stPc = "streaming" /\ Len(tokens) = 0
    /\ wire' = wire \o "event: done\n" \o "data: [DONE]\n\n"
    /\ stPc' = "ended"
    /\ UNCHANGED <<tokens, emitted, accumulated>>
    /\ UNCHANGED <<sanitizeVars, validateVars, runVars, diagramVars, routeVars>>
    /\ UNCHANGED <<componentVars, chatVars, fileVars>>

\* reader.read() resolves with some of the bytes written so far
ReadChunk ==
    /\ stPc \in {"streaming", "ended"} /\ Len(wire) > 0
    /\ \E n \in 1..Len(wire) :
          /\ accumulated' = accumulateLines(splitLines(SubSeq(wire, 1, n)), 1, accumulated)
          /\ wire' = SubSeq(wire, n + 1, Len(wire))
    /\ UNCHANGED <<stPc, tokens, emitted>>
    /\ UNCHANGED <<sanitizeVars, validateVars, runVars, diagramVars, routeVars>>
    /\ UNCHANGED <<componentVars, chatVars, fileVars>>

\* reader.read() resolves with done: the chunk is empty and the loop ends
ReadDone ==
    /\ stPc = "ended" /\ Len(wire) = 0
    /\ stPc' = "closed"
    /\ UNCHANGED <<tokens, emitted, wire, accumulated>>
    /\ UNCHANGED <<sanitizeVars, validateVars, runVars, diagramVars, routeVars>>
    /\ UNCHANGED <<componentVars, chatVars, fileVars>>

NextStream == EmitToken \/ EndStream \/ ReadChunk \/ ReadDone

SpecStream == InitStream /\ [][NextStream]_vars

(***************************************************************************)
(* Properties.                                                             *)
(***************************************************************************)
Range(f) == {f[i] : i \in DOMAIN f}

\* C1: sanitizeId is idempotent: sanitizing the token it returned gives the same
\* token again, for every id, ids longer than the length cap included.
C1_SanitizeIdIdempotent == sPc = "twice" => sOut2 = sOut

\* the reference notion of balance: every closer closes the latest open bracket and
\* nothing is left open at the end; open is the string of open brackets, or "!" once
\* a closer has failed
BalanceStep(open, c) ==
    IF open = "!" THEN open
    ELSE IF c \in Openers THEN open \o c
    ELSE IF c \in Closers
         THEN IF open # "" /\ brackets(CharAt(open, Len(open))) = c
              THEN SubSeq(open, 1, Len(open) - 1) ELSE "!"
    ELSE open

RECURSIVE OpenAfter(_, _, _, _)
OpenAfter(s, lo, hi, open) ==
    IF open = "!" \/ lo > hi THEN open
    ELSE IF lo = hi THEN BalanceStep(open, CharAt(s, lo))
    ELSE LET mid == (lo + hi) \div 2
         IN  OpenAfter(s, mid + 1, hi, OpenAfter(s, lo, mid, open))

Balanced(s) == OpenAfter(s, 1, Len(s), "") = ""

\* C2: validateMermaidDSL rejects every text whose brackets are not balanced, a
\* text ending in a bracket that is never closed included: isValid is false and
\* the errors hold the bracket error.
C2_RejectsUnbalanced ==
    (vPc = "validated" /\ ~Balanced(vDsl))
        => (~vResult.isValid /\ "Unmatched brackets detected" \in Range(vResult.errors))

\* the text, trimmed, begins with one of the three declaration keywords
Declared(s) ==
    \E k \in {"graph", "classDiagram", "sequenceDiagram"} :
        \E i \in 1..(Len(s) + 1) :
            /\ \A j \in 1..(i - 1) : CharAt(s, j) \in WhiteSpace \cup LineTerminators
            /\ i + Len(k) - 1 <= Len(s)
            /\ SubSeq(s, i, i + Len(k) - 1) = k

\* the text holds a quoted label wrapped in two shape brackets, on one line
HasNestedShape(s) ==
    \E pair \in { <<"{(", ")}">>, <<"[(", ")]">>, <<"([", "])">>,
                  <<"{[", "]}">>, <<"({", "})">> } :
        \E i, j \in 1..Len(s) :
            /\ j >= i + 3 /\ j + 2 <= Len(s)
            /\ SubSeq(s, i, i + 1) = pair[1] /\ CharAt(s, i + 2) = "\""
            /\ CharAt(s, j) = "\"" /\ SubSeq(s, j + 1, j + 2) = pair[2]
            /\ \A k \in (i + 3)..(j - 1) : CharAt(s, k) \notin LineTerminators

\* C11: validateMermaidDSL accepts every text that, trimmed, begins with a
\* declaration keyword, has balanced brackets and no nested shape: isValid is
\* true and errors is empty; and isValid is false exactly when errors is non-empty.
C11_AcceptsWellFormed ==
    vPc = "validated" =>
        /\ (Declared(vDsl) /\ Balanced(vDsl) /\ ~HasNestedShape(vDsl))
               => (vResult.isValid /\ vResult.errors = <<>>)
        /\ ~vResult.isValid <=> Len(vResult.errors) > 0

\* the two-node flow diagram has been accepted
C11_Witness ==
    /\ vPc = "validated"
    /\ vDsl = "graph TD\n  A[\"x\"]\n  B[\"y\"]\n  A --> B\n"
    /\ vResult = [isValid |-> TRUE, errors |-> <<>>]

(***************************************************************************)
(* Properties of an analysis run.                                         *)
(***************************************************************************)
RunBuilt == pc \in {"graphed", "saved"}
RecordPaths == {parseResults[i].filePath : i \in DOMAIN parseResults}
NodeIds == {dependencyGraph.nodes[i].id : i \in DOMAIN dependencyGraph.nodes}
Edges == Range(dependencyGraph.edges)
\* the single-file candidates of a reference, in the documented priority order
Candidates(rp) == <<rp, rp \o ".js", rp \o ".jsx", rp \o ".ts", rp \o ".tsx">>
IndexCandidates(rp) ==
    <<rp \o "/index.js", rp \o "/index.jsx", rp \o "/index.ts", rp \o "/index.tsx">>

\* C3: with records <dir>/a.js and <dir>/b.jsx, a non-external reference './b' of
\* a.js and no other candidate of that reference among the records, the graph has an
\* edge from a.js to b.jsx, whether the record paths are absolute or relative.
C3_ExtensionProbing ==
    RunBuilt =>
        \A i, j \in DOMAIN parseResults :
            LET a == parseResults[i]
                b == parseResults[j]
                dir == dirname(a.filePath)
            IN  ( /\ a.filePath = dir \o "/a.js"
                  /\ b.filePath = dir \o "/b.jsx"
                  /\ \E d \in DOMAIN a.dependencies :
                         ~a.dependencies[d].external /\ a.dependencies[d].source = "./b"
                  /\ RecordPaths \cap {dir \o "/b", dir \o "/b.js", dir \o "/b.ts",
                                       dir \o "/b.tsx"} = {} )
                => \E e \in Edges : e.from = a.filePath /\ e.to = b.filePath

\* C4: every edge ends at the first candidate of its reference, in the order
\* literal, .js, .jsx, .ts, .tsx, that is the path of a record, whatever the order
\* of the records.
C4_ResolutionPriority ==
    RunBuilt =>
        \A e \in Edges :
            LET c == Candidates(resolve(processCwd, dirname(e.from), e.label))
                first == findIndex(c, LAMBDA x : x \in RecordPaths)
            IN  first # 0 /\ e.to = c[first]

\* C5: a non-external reference with no record at its literal path or at that path
\* with .js, .jsx, .ts or .tsx appended, and a record at <target>/index.<ext>,
\* gets an edge to an index file of the target.
C5_IndexResolution ==
    RunBuilt =>
        \A i \in DOMAIN parseResults :
            \A d \in DOMAIN parseResults[i].dependencies :
                LET owner == parseResults[i]
                    dep == owner.dependencies[d]
                    rp == resolve(processCwd, dirname(owner.filePath), dep.source)
                IN  ( /\ ~dep.external
                      /\ Range(Candidates(rp)) \cap RecordPaths = {}
                      /\ Range(IndexCandidates(rp)) \cap RecordPaths # {} )
                    => \E e \in Edges :
                           /\ e.from = owner.filePath /\ e.label = dep.source
                           /\ e.to \in Range(IndexCandidates(rp)) \cap RecordPaths

\* C6: every edge of the built graph starts and ends at a node of that graph.
C6_EdgeSoundness ==
    \A e \in Edges : e.from \in NodeIds /\ e.to \in NodeIds

\* a graph was built with an edge between two different files
C6_Witness ==
    RunBuilt /\ \E e \in Edges : e.from # e.to

\* C7: the built graph has exactly one node per record, in the order of the
\* records, whatever errors the records carry.
C7_NoNodeLoss ==
    RunBuilt =>
        /\ Len(dependencyGraph.nodes) = Len(parseResults)
        /\ \A i \in DOMAIN parseResults :
               dependencyGraph.nodes[i].id = parseResults[i].filePath

\* a graph was built from a record with a fatal error, a record with a parse error
\* and a record without dependencies
C7_Witness ==
    /\ RunBuilt
    /\ \E i, j, k \in DOMAIN parseResults :
           /\ parseResults[i].error # ""
           /\ Len(parseResults[j].errors) > 0
           /\ parseResults[k].error = "" /\ Len(parseResults[k].errors) = 0
           /\ Len(parseResults[k].dependencies) = 0

Unsupported(f) == toLowerCase(extname(f.rel)) \notin Range(supportedExtensions)
Unreadable(f) == ~f.readable
GrammarFails(f) == f.readable /\ ~f.content.grammarOk /\ ~Unsupported(f)
\* a .js file that reads, parses and declares a function or a class
ValidJs(f) ==
    /\ extname(f.rel) = ".js" /\ f.readable /\ f.content.grammarOk
    /\ Len(f.content.functions) + Len(f.content.classes) > 0
RecordsOf(f) == {i \in DOMAIN parseResults : parseResults[i].filePath = pathOf(f)}
\* the run returned two records: the valid file's with its functions or classes, the
\* other file's with the fatal error set
IsolatedPair(bad, good) ==
    /\ Len(parseResults) = 2
    /\ \E i \in RecordsOf(good) :
           /\ parseResults[i].error = ""
           /\ Len(parseResults[i].functions) + Len(parseResults[i].classes) > 0
    /\ \E i \in RecordsOf(bad) : parseResults[i].error # ""

SourceEmpty ==
    LET records == projectData.parseResults IN
    CASE dKind = "dependency" -> Len(projectData.dependencyGraph.nodes) = 0
      [] dKind = "components" -> \A i \in 1..Len(records) : Len(records[i].components) = 0
      [] dKind = "functions"  -> \A i \in 1..Len(records) : Len(records[i].functions) = 0
      [] dKind = "classes"    -> \A i \in 1..Len(records) : Len(records[i].classes) = 0
      [] dKind = "sequence"   -> \A i \in 1..Len(records) : Len(records[i].components) = 0
      [] OTHER -> FALSE

\* C9: each of the five projections, called on an empty source collection,
\* returns a non-empty text that validateMermaidDSL accepts.
C9_EmptyInputPlaceholder ==
    (dPc = "validated" /\ SourceEmpty)
        => (mermaidDSL # "" /\ validation.isValid /\ validation.errors = <<>>)

\* the function-call projection of a project without any file has returned its
\* placeholder, and so has the dependency projection
C9_Witness ==
    /\ dPc = "validated" /\ dKind = "functions"
    /\ projectData.exists /\ projectData.parseResults = <<>>
    /\ includes(mermaidDSL, "A[No Functions Found]")
    /\ validation.isValid

\* an id that names a package: no path separator and no dot
BarePackageId(id) == ~includes(id, "/") /\ ~includes(id, "\\") /\ ~includes(id, ".")

ExternalRecorded(records) ==
    \A i \in 1..Len(records) : \A d \in 1..Len(records[i].dependencies) :
        LET dep == records[i].dependencies[d]
        IN  ~startsWith(dep.source, ".") => dep.external = TRUE

NoEdgeForExternal(records, graph) ==
    \A i \in 1..Len(records) : \A d \in 1..Len(records[i].dependencies) :
        LET dep == records[i].dependencies[d]
        IN  ~startsWith(dep.source, ".") =>
                ~\E e \in 1..Len(graph.edges) :
                    /\ graph.edges[e].from = records[i].filePath
                    /\ graph.edges[e].label = dep.source

\* the text neither defines the node nor ends an edge at it
NotRendered(node) ==
    /\ ~includes(mermaidDSL, sanitizeId(node.id)
                 \o formatNodeByShape(generateNodeLabel(node), getNodeShape(node)))
    /\ ~includes(mermaidDSL, " " \o sanitizeId(node.id) \o "\n")

C12_ParseFileNeverThrows ==
    pc = "returned" =>
        \A f \in disk :
            LET record == parseResults[1]
                read == givenContent.size = 0
            IN  /\ "thrown" \notin DOMAIN record
                /\ record.filePath = pathOf(f)
                /\ (read /\ Unreadable(f)) => record.error # ""
                /\ Unsupported(f) => record.error # ""
                /\ record.error # "" =>
                       /\ record.functions = <<>> /\ record.classes = <<>>
                       /\ record.components = <<>> /\ record.dependencies = <<>>
                       /\ record.exports = <<>>

\* parseFile has returned the fatal record of a file of an unsupported type
C12_Witness ==
    /\ pc = "returned"
    /\ \E f \in disk : f.rel = "notes.txt"
    /\ parseResults[1].error = "Unsupported file type: .txt"
    /\ parseResults[1].dependencies = <<>>

RecognizedDirections == {"LR", "RL", "TD", "TB", "BT"}
\* a string of decimal digits that reads as a positive integer
PositiveInteger(v) ==
    /\ Len(v) > 0 /\ \A i \in 1..Len(v) : CharAt(v, i) \in Digits
    /\ \E i \in 1..Len(v) : CharAt(v, i) # "0"

\* C13: an option of the dependency flowchart endpoint that is left out, or holds a
\* value that is not recognized, takes its documented default (LR, false, 50, true)
\* and the request of a stored project does not fail.
C13_OptionDefaults ==
    request.route = "dependency" /\ response # notFound =>
        LET q == request.query
            given(k) == k \in DOMAIN q
        IN  /\ response.status = 200
            /\ (~given("direction") \/ toUpperCase(q["direction"]) \notin RecognizedDirections)
                   => response.options.direction = "LR"
            /\ (~given("includeExternal") \/ q["includeExternal"] \notin {"true", "false"})
                   => response.options.includeExternal = FALSE
            /\ (~given("maxNodes") \/ ~PositiveInteger(q["maxNodes"]))
                   => response.options.maxNodes = number(50)
            /\ (~given("groupByDirectory") \/ q["groupByDirectory"] \notin {"true", "false"})
                   => response.options.groupByDirectory = TRUE

SafeTexts == {safeFlowchart, safeComponents, safeFunctions, safeClasses, safeSequence}

\* C14: on every diagram endpoint, when the validation of the generated text reports
\* isValid = false, the text of the response is a fixed safe diagram that passes the
\* validation, never the invalid text.
C14_FallbackSubstitution ==
    response.status = 200 /\ ~response.validation.isValid =>
        /\ response.mermaidDSL \in SafeTexts
        /\ validateMermaidDSL(response.mermaidDSL).isValid

\* parseDirectory has produced the record of every enumerated file, in order
AllFilesParsed ==
    /\ Len(parseResults) = Len(files)
    /\ \A i \in 1..Len(files) : parseResults[i].filePath = files[i]

\* C15: in an upload or clone run the graph is built only after parseDirectory has
\* produced the record of every enumerated file, the snapshot is persisted only after
\* both have completed and holds their results, and a run that fails before that
\* persists no snapshot.
C15_RunOrdering ==
    /\ pc \in {"start", "parsing"} => dependencyGraph = emptyGraph /\ ~projectData.exists
    /\ pc \in {"graphed", "saved"} =>
          AllFilesParsed /\ dependencyGraph = generateDependencyGraph(parseResults)
    /\ pc = "graphed" => ~projectData.exists
    /\ pc = "failed" => ~projectData.exists
    /\ projectData.exists =>
          /\ pc = "saved"
          /\ projectData.parseResults = parseResults
          /\ projectData.dependencyGraph = dependencyGraph

\* a run of several files failed after the graph was built
C15_Witness ==
    /\ pc = "failed"
    /\ Len(files) > 1
    /\ Len(dependencyGraph.nodes) = Len(files)
    /\ ~projectData.exists

\* C16: no token returned by sanitizeId begins with a digit: an id whose normalized
\* form begins with a digit gets a protective prefix.
C16_NoLeadingDigit ==
    sPc \in {"once", "twice"} => CharAt(sOut, 1) \notin Digits

\* C17: for every input, the empty (falsy) and the all-punctuation ones included,
\* the token of sanitizeId is non-empty, at most 50 characters long, made of ASCII
\* letters, digits and underscores only, and has no two underscores in a row.
C17_TokenShape ==
    sPc \in {"once", "twice"} =>
        /\ Len(sOut) >= 1
        /\ Len(sOut) <= 50
        /\ \A i \in 1..Len(sOut) : CharAt(sOut, i) \in WordChars
        /\ \A i \in 1..(Len(sOut) - 1) : ~(CharAt(sOut, i) = "_" /\ CharAt(sOut, i + 1) = "_")

\* an id longer than the cap, with punctuation and a run of underscores, was cut
C17_Witness ==
    /\ sPc = "once"
    /\ Len(sIn) > 50
    /\ includes(sIn, "__")
    /\ includes(sIn, ".")
    /\ Len(sOut) = 50

\* the references <<record, position>> that are not external and have a candidate
\* among the record paths
ResolvedRefs ==
    {p \in UNION {{<<i, d>> : d \in DOMAIN parseResults[i].dependencies} :
                     i \in DOMAIN parseResults} :
        LET owner == parseResults[p[1]]
            dep == owner.dependencies[p[2]]
        IN  /\ ~dep.external
            /\ Range(Candidates(resolve(processCwd, dirname(owner.filePath), dep.source)))
                   \cap RecordPaths # {}}

\* the position of a resolved reference among the resolved references, in the order
\* of the records and of their dependencies
RefRank(p) ==
    Cardinality({q \in ResolvedRefs : q[1] < p[1] \/ (q[1] = p[1] /\ q[2] <= p[2])})

\* C18: the graph has exactly one edge per non-external reference that resolves, with
\* the owner's path, the path of the file it resolved to, the kind and the target
\* text of the reference; a reference that does not resolve adds no edge and changes
\* no node, so there are as many edges as resolved references, duplicates included.
C18_EdgeEmission ==
    RunBuilt =>
        /\ Len(dependencyGraph.edges) = Cardinality(ResolvedRefs)
        /\ \A p \in ResolvedRefs :
               LET owner == parseResults[p[1]]
                   dep == owner.dependencies[p[2]]
                   e == dependencyGraph.edges[RefRank(p)]
               IN  /\ e.from = owner.filePath
                   /\ e.type = dep.type
                   /\ e.label = dep.source
                   /\ e.to \in Range(Candidates(resolve(processCwd,
                                        dirname(owner.filePath), dep.source)))
                                  \cap RecordPaths
        /\ Len(dependencyGraph.nodes) = Len(parseResults)

\* a graph was built from a record with a reference that does not resolve and two
\* references that resolve to the same file
C18_Witness ==
    /\ RunBuilt
    /\ \E i \in DOMAIN parseResults :
           /\ \E d \in DOMAIN parseResults[i].dependencies :
                  /\ ~parseResults[i].dependencies[d].external
                  /\ <<i, d>> \notin ResolvedRefs
           /\ \E d, d2 \in DOMAIN parseResults[i].dependencies :
                  /\ d < d2 /\ <<i, d>> \in ResolvedRefs /\ <<i, d2>> \in ResolvedRefs
                  /\ dependencyGraph.edges[RefRank(<<i, d>>)].to
                         = dependencyGraph.edges[RefRank(<<i, d2>>)].to

\* the nodes of the stored graph that survive the external filter of the call
Survivors ==
    IF dOptions.includeExternal THEN projectData.dependencyGraph.nodes
    ELSE SelectSeq(projectData.dependencyGraph.nodes, LAMBDA n : ~isExternalNode(n))

\* the nodes the call is to render: the first min(maxNodes, n) survivors
Expected == SubSeq(Survivors, 1, min(dOptions.maxNodes, Len(Survivors)))

\* the line that defines a node, and the position of its first occurrence in the
\* text (0 when the text does not have it)
DefinitionLine(node) ==
    "    " \o sanitizeId(node.id)
           \o formatNodeByShape(generateNodeLabel(node), getNodeShape(node)) \o "\n"
PositionOf(line) ==
    LET at == {i \in 1..(Len(mermaidDSL) - Len(line) + 1) :
                  SubSeq(mermaidDSL, i, i + Len(line) - 1) = line}
    IN  IF at = {} THEN 0 ELSE CHOOSE i \in at : \A j \in at : i <= j

\* the line of a dependency edge (the lines of the synthetic chain use -.->
\* without a label)
EdgeLine(e) ==
    "  " \o sanitizeId(e.from) \o " " \o edgeTypes(e.type)
         \o "|" \o sanitizeEdgeLabel(e.label) \o "| " \o sanitizeId(e.to) \o "\n"

\* C19: for a positive maxNodes, generateFlowchart renders exactly the first
\* min(maxNodes, n) of the n nodes that survive the external filter, in input order,
\* and every dependency edge it renders has both ends among the rendered nodes.
C19_NodeCap ==
    (dPc = "validated" /\ dKind = "dependency" /\ dOptions.maxNodes > 0) =>
        LET nodes == projectData.dependencyGraph.nodes
            edges == projectData.dependencyGraph.edges
            rendered == {Expected[i].id : i \in 1..Len(Expected)}
        IN  /\ \A k \in 1..Len(nodes) :
                   PositionOf(DefinitionLine(nodes[k])) # 0 <=> nodes[k].id \in rendered
            /\ ~dOptions.groupByDirectory =>
                   \A i, j \in 1..Len(Expected) :
                       i < j => PositionOf(DefinitionLine(Expected[i]))
                                    < PositionOf(DefinitionLine(Expected[j]))
            /\ \A e \in 1..Len(edges) :
                   PositionOf(EdgeLine(edges[e])) # 0 =>
                       edges[e].from \in rendered /\ edges[e].to \in rendered

\* three nodes survived, the cap of two cut the last one, and the edge between the
\* first two was rendered
C19_Witness ==
    /\ dPc = "validated" /\ dKind = "dependency"
    /\ dOptions.maxNodes = 2
    /\ Len(Survivors) >= 3
    /\ PositionOf(DefinitionLine(Survivors[3])) = 0
    /\ \E e \in 1..Len(projectData.dependencyGraph.edges) :
           PositionOf(EdgeLine(projectData.dependencyGraph.edges[e])) # 0

\* C20: generateFlowchart never returns a text without a node definition: when no
\* node remains to render, because the graph has none or because every node was
\* filtered out as external, the text has the placeholder node and its label.
C20_PlaceholderWhenNothingRemains ==
    (dPc = "validated" /\ dKind = "dependency" /\ Len(Expected) = 0) =>
        includes(mermaidDSL, "  A[No files found]\n")

\* C21: the text normalizeShapes returns has no match of any of the five nested-shape
\* patterns that validateMermaidDSL rejects, and normalizing it again changes nothing.
C21_NormalizeHeals ==
    /\ vPc \in {"normalized", "renormalized"} => ~HasNestedShape(mermaidDSL)
    /\ vPc = "renormalized" => mermaidDSL = vDsl

\* the names of the components of the stored records, in the order of the records
ComponentNames ==
    LET records == projectData.parseResults
        names == [i \in 1..Len(records) |->
                     [c \in 1..Len(records[i].components) |-> records[i].components[c].name]]
    IN  concatAll(names)

ParticipantDeclared(name) == includes(mermaidDSL, "  participant " \o name \o "\n")
MessageEmitted(from, to) == includes(mermaidDSL, "  " \o from \o "->>+" \o to \o ": ")

\* C22: with at least one component, generateSequenceDiagram declares User and the
\* first five components at most, and every message it emits (User to the first
\* component, component i to component i+1) has its sender and its receiver among
\* the declared participants.
C22_SequenceParticipants ==
    (dPc = "validated" /\ dKind = "sequence" /\ Len(ComponentNames) > 0) =>
        LET names == ComponentNames
            all == Range(names) \cup {"User"}
        IN  /\ ParticipantDeclared("User")
            /\ \A i \in 1..Len(names) :
                   ParticipantDeclared(names[i])
                       <=> \E k \in 1..min(5, Len(names)) : names[k] = names[i]
            /\ MessageEmitted("User", names[1])
            /\ \A i \in 1..(Len(names) - 1) : MessageEmitted(names[i], names[i + 1])
            /\ \A a, b \in all :
                   MessageEmitted(a, b) => ParticipantDeclared(a) /\ ParticipantDeclared(b)

\* the blocks parseVue hands to a sub-parser: the first script, the first template,
\* every style
ParsedBlocks(content) ==
    LET first(tag) == LET b == SelectSeq(content.blocks, LAMBDA x : x.tag = tag)
                      IN  IF Len(b) = 0 THEN <<>> ELSE <<b[1]>>
    IN  first("script") \o first("template")
            \o SelectSeq(content.blocks, LAMBDA x : x.tag = "style")

\* the kinds of reference the sub-parser of a block looks for
FormsOf(tag) ==
    CASE tag = "script" -> {"import", "require", "dynamic"}
      [] tag = "template" -> {"script", "stylesheet"}
      [] tag = "style" -> {"css_import"}

\* the .vue file of the call, read from the disk
VueCall(f) ==
    /\ pc = "returned" /\ givenContent.size = 0
    /\ f \in disk /\ f.readable /\ toLowerCase(extname(f.rel)) = ".vue"

\* C23: parseVue never throws; the failure of a script, template or style block is
\* recorded in the errors of the outer record, and the blocks that parse still have
\* their dependencies merged into it.
C23_VueBlockIsolation ==
    \A f \in disk : VueCall(f) =>
        LET record == parseResults[1]
            blocks == ParsedBlocks(f.content)
        IN  /\ "thrown" \notin DOMAIN record
            /\ record.error = ""
            /\ Len(record.errors)
                   = Cardinality({k \in 1..Len(blocks) : ~blocks[k].grammarOk})
            /\ \A k \in 1..Len(blocks) : blocks[k].grammarOk =>
                   \A r \in 1..Len(blocks[k].refs) :
                       blocks[k].refs[r].form \in FormsOf(blocks[k].tag) =>
                           \E d \in 1..Len(record.dependencies) :
                               /\ record.dependencies[d].source = blocks[k].refs[r].source
                               /\ record.dependencies[d].type = blocks[k].refs[r].form

\* a component whose script block failed and whose template and style blocks parsed
C23_Witness ==
    \E f \in disk :
        /\ VueCall(f)
        /\ \E k \in 1..Len(f.content.blocks) :
               f.content.blocks[k].tag = "script" /\ ~f.content.blocks[k].grammarOk
        /\ \A k \in 1..Len(f.content.blocks) :
               f.content.blocks[k].tag # "script" => f.content.blocks[k].grammarOk
        /\ Len(parseResults[1].errors) = 1
        /\ \E d \in 1..Len(parseResults[1].dependencies) :
               parseResults[1].dependencies[d].source = "./theme.css"

\* the text parseFile parses: the content argument when it is given, the file otherwise
ParsedText(f) == IF givenContent.size > 0 THEN givenContent ELSE f.content
ScriptFamily(f) == toLowerCase(extname(f.rel)) \in {".js", ".jsx", ".ts", ".tsx"}

\* C24: when the grammar-driven parse of a script-family file fails, parseFile
\* returns a record with at least one parse-error entry, no fatal error, and empty
\* dependencies, exports, functions, classes and components.
C24_ScriptGrammarFailure ==
    pc = "returned" =>
        \A f \in disk :
            ( /\ ScriptFamily(f)
              /\ givenContent.size > 0 \/ f.readable
              /\ ~ParsedText(f).grammarOk )
            => LET record == parseResults[1]
               IN  /\ "thrown" \notin DOMAIN record
                   /\ Len(record.errors) >= 1
                   /\ \A e \in 1..Len(record.errors) : record.errors[e].type = "parse_error"
                   /\ record.error = ""
                   /\ record.dependencies = <<>> /\ record.exports = <<>>
                   /\ record.functions = <<>> /\ record.classes = <<>>
                   /\ record.components = <<>>

\* parseFile has returned the record of a script that fails the grammar and holds an
\* import statement
C24_Witness ==
    /\ pc = "returned" /\ givenContent.size = 0
    /\ \E f \in disk :
           /\ f.rel = "src/broken.js" /\ ~f.content.grammarOk /\ Len(f.content.refs) > 0
    /\ Len(parseResults[1].errors) = 1
    /\ parseResults[1].dependencies = <<>>

\* the references the sub-parser of a block finds: none when the block fails
FoundIn(b) ==
    IF b.grammarOk THEN SelectSeq(b.refs, LAMBDA r : r.form \in FormsOf(b.tag)) ELSE <<>>

\* C25: the dependencies of the record of a .vue file hold each reference of the
\* script block, the template block and each style block once per occurrence: there
\* are as many as the sub-parsers found together, whether or not a block fails.
C25_VueDependencyMerge ==
    \A f \in disk : VueCall(f) =>
        LET record == parseResults[1]
            blocks == ParsedBlocks(f.content)
            found == concatAll([k \in 1..Len(blocks) |-> FoundIn(blocks[k])])
        IN  /\ Len(record.dependencies) = Len(found)
            /\ \A r \in 1..Len(found) :
                   Cardinality({d \in 1..Len(record.dependencies) :
                                    /\ record.dependencies[d].source = found[r].source
                                    /\ record.dependencies[d].type = found[r].form})
                       = Cardinality({q \in 1..Len(found) : found[q] = found[r]})

RECURSIVE AllNodes(_)
\* every node of a syntax tree
AllNodes(n) == {n} \cup UNION {AllNodes(n.children[i]) : i \in 1..Len(n.children)}

\* a declaration that qualifies as a component: a capitalized function
\* declaration, a capitalized variable bound to a function or an arrow function,
\* or a class that extends Component or React.Component
Qualifies(n) ==
    \/ n.type = "FunctionDeclaration" /\ isCapitalized(n.name)
    \/ /\ n.type = "VariableDeclarator" /\ isCapitalized(n.name)
       /\ n.init \in {"ArrowFunctionExpression", "FunctionExpression"}
    \/ /\ n.type = "ClassDeclaration"
       /\ n.superName = "Component" \/ n.superProperty = "Component"

\* the lines on which the tree declares a component of that name
DeclarationsOf(name) == {n \in AllNodes(ast) : Qualifies(n) /\ n.name = name}

EntriesOf(name) == {i \in 1..Len(cComponents) : cComponents[i].name = name}

\* C26: every declaration that qualifies as a component contributes exactly one
\* entry to the components list, a capitalized function declared directly under
\* an export-default declaration included: the list holds as many entries of a
\* name as the tree holds qualifying declarations of that name.
C26_ComponentCountedOnce ==
    cPc = "extracted" =>
        \A name \in {"App", "helper", "Card", "Panel", "value", "Limit", "Page", "View",
                     "Store", "Plain", "Home", "main", "Widget", "Outer", "Inner", "Shell"} :
            Cardinality(EntriesOf(name)) = Cardinality(DeclarationsOf(name))

\* C27: the text generateFlowchart returns passes validateMermaidDSL, whatever
\* the node labels of the dependency graph (long file names included) and
\* whatever the options.
C27_FlowchartIsValid ==
    dPc = "validated" /\ dKind = "dependency" => validation.isValid

\* C28: once the upload router has deleted a project, every later chat, search
\* or file-list request for that id answers "not found", whatever was served for
\* the id before the deletion; a request turned away for an empty message or
\* query, and a chat whose model call failed, are left aside.
C28_DeletionInvalidatesChat ==
    /\ lastCall.route \in {"chat", "stream", "search", "files"}
    /\ lastCall.afterDeletion
    /\ lastCall.status \notin {400, 500}
    => lastCall.status = 404

\* the files of a project's own upload directory
OwnFiles(projectId) ==
    {f \in DOMAIN ServerFiles : startsWith(f, "/srv/app/uploads/" \o projectId \o "/")}

\* C29: getFileContent returns the content of a file located inside the upload
\* directory of the project it was asked about, or null, whatever the requested
\* path ('..' segments included).
C29_FileContentConfined ==
    fPc = "returned" /\ ~fContent.isNull =>
        \E f \in OwnFiles(fProjectId) : fContent.content = ServerFiles[f]

\* C30: when the stream has ended, the AI message content ChatTab accumulated is
\* the concatenation of the tokens the server emitted, whatever the tokens
\* (newlines included) and however the transport cut the bytes into chunks, and
\* the "[DONE]" marker is no part of it.
C30_StreamRoundTrip ==
    stPc = "closed" => accumulated = emitted /\ ~includes(accumulated, "[DONE]")
====
